---- MODULE Spec2Model ----
(***************************************************************************)
(* Model of install_claude.py (ClaudeInstaller): the shell-config block    *)
(* editor (generate_shell_config, update_shell_config,                     *)
(* remove_shell_config) and the three commands built on it.                *)
(*                                                                         *)
(* Text is a sequence of pieces.  A piece is a string standing for a run   *)
(* of characters: LF, CR and SP are the single characters \n, \r and a     *)
(* blank; "u" is a non-whitespace user character; S1, S2 are the two       *)
(* halves of CONFIG_START_MARKER and E1, E2 the two halves of              *)
(* CONFIG_END_MARKER, each marker cut inside a word, so that a marker is   *)
(* found by substring search and a file may hold half a marker.  Every     *)
(* other piece (a key, a value, a fixed line of the rendered block) is a   *)
(* run of characters that holds no newline and no part of a marker, and    *)
(* neither begins nor ends with whitespace.                                *)
(***************************************************************************)
EXTENDS Integers, Sequences, FiniteSets, TLC

VARIABLES
    files,      \* rc file name -> [exists, text]: the files under user_home
    env,        \* what the probes find: nvm, node, npm, the tool
    installed,  \* the dialects shutil.which resolves (get_installed_shells)
    op,         \* the last operation: its name, inputs, calls, writes, result
    home0,      \* the rc files as they were before the first operation
    runs        \* the number of operations so far, where a specification counts them

vars == <<files, env, installed, op, home0, runs>>

-----------------------------------------------------------------------------
(* Bounds of the model *)

\* longest user text (before and after the block together) of an initial rc
\* file of SpecEdit
MaxLen == 2
\* most rc files present in the initial home directory of SpecHome
MaxFiles == 2
\* most calls in a row of SpecHome
MaxEdits == 1
\* longest text around the version in an output of `node --version` of
\* SpecProbe (before and after it together)
MaxJunk == 1

-----------------------------------------------------------------------------
(* Pieces of text *)

LF == "LF"
CR == "CR"
SP == "SP"

CONFIG_START_MARKER == <<"S1", "S2">>
CONFIG_END_MARKER == <<"E1", "E2">>

\* what str.strip() with no argument removes from both ends
Whitespace == {LF, CR, SP}

\* the texts of at most n pieces drawn from alphabet
Strs(alphabet, n) == UNION {[1..k -> alphabet] : k \in 0..n}

InSeq(x, s) == \E i \in 1..Len(s) : s[i] = x

\* m occurs in t at index i
OccursAt(t, m, i) ==
    /\ i >= 1
    /\ i + Len(m) - 1 <= Len(t)
    /\ \A k \in 1..Len(m) : t[i + k - 1] = m[k]

\* str.find: the first index >= from at which m occurs in t, 0 when none
RECURSIVE Find(_, _, _)
Find(t, m, from) ==
    IF from + Len(m) - 1 > Len(t) THEN 0
    ELSE IF OccursAt(t, m, from) THEN from
    ELSE Find(t, m, from + 1)

\* the `in` operator on strings
Contains(t, m) == Find(t, m, 1) # 0

\* str.count: the markers do not overlap themselves, so every occurrence counts
Count(t, m) == Cardinality({i \in 1..Len(t) : OccursAt(t, m, i)})

\* Path.read_text(): text mode with universal newlines, \r\n and \r become \n
RECURSIVE read_text(_)
read_text(b) ==
    IF b = <<>> THEN <<>>
    ELSE IF Head(b) = CR
         THEN IF Len(b) >= 2 /\ b[2] = LF
              THEN <<LF>> \o read_text(SubSeq(b, 3, Len(b)))
              ELSE <<LF>> \o read_text(Tail(b))
         ELSE <<Head(b)>> \o read_text(Tail(b))

\* Path.write_text(): text mode, \n is written as os.linesep, which is \n here
write_text(t) == t

\* re.sub(START + '.*?' + END, '', t, flags=re.DOTALL): every non-overlapping
\* match, found left to right, each from a start marker to the nearest end
\* marker after it; what is left of a match is not scanned again
RECURSIVE re_sub_block(_)
re_sub_block(t) ==
    LET i == Find(t, CONFIG_START_MARKER, 1)
    IN  IF i = 0 THEN t
        ELSE LET j == Find(t, CONFIG_END_MARKER, i + Len(CONFIG_START_MARKER))
             IN  IF j = 0 THEN t
                 ELSE SubSeq(t, 1, i - 1)
                      \o re_sub_block(SubSeq(t, j + Len(CONFIG_END_MARKER), Len(t)))

\* the number of LF in t from index k on, up to the first other piece
RECURSIVE RunFrom(_, _)
RunFrom(t, k) ==
    IF k <= Len(t) /\ t[k] = LF THEN 1 + RunFrom(t, k + 1) ELSE 0

\* re.sub(r'\n{3,}', '\n\n', t)
RECURSIVE re_sub_newlines(_)
re_sub_newlines(t) ==
    IF t = <<>> THEN <<>>
    ELSE IF Head(t) = LF
         THEN LET k == RunFrom(t, 1)
              IN  (IF k >= 3 THEN <<LF, LF>> ELSE SubSeq(t, 1, k))
                  \o re_sub_newlines(SubSeq(t, k + 1, Len(t)))
         ELSE <<Head(t)>> \o re_sub_newlines(Tail(t))

\* the first index from k upwards that holds no whitespace, Len(t) + 1 when none
RECURSIVE FirstSolid(_, _)
FirstSolid(t, k) ==
    IF k <= Len(t) /\ t[k] \in Whitespace THEN FirstSolid(t, k + 1) ELSE k

\* the last index from k downwards that holds no whitespace, 0 when none
RECURSIVE LastSolid(_, _)
LastSolid(t, k) ==
    IF k >= 1 /\ t[k] \in Whitespace THEN LastSolid(t, k - 1) ELSE k

\* str.strip()
strip(t) == SubSeq(t, FirstSolid(t, 1), LastSolid(t, Len(t)))

\* '\n'.join(lines)
RECURSIVE join_lines(_)
join_lines(lines) ==
    IF lines = <<>> THEN <<>>
    ELSE IF Len(lines) = 1 THEN lines[1]
    ELSE lines[1] \o <<LF>> \o join_lines(Tail(lines))

-----------------------------------------------------------------------------
(* The dialects *)

Shells == {"bash", "zsh", "fish", "csh", "tcsh"}

\* the order of the keys of shell_configs, which get_installed_shells keeps
ShellOrder == <<"bash", "zsh", "fish", "csh", "tcsh">>

rc_files(shell_name) ==
    CASE shell_name = "bash" -> <<".bashrc", ".bash_profile", ".profile">>
      [] shell_name = "zsh"  -> <<".zshrc", ".zprofile">>
      [] shell_name = "fish" -> <<".config/fish/conf.d/claude.fish">>
      [] shell_name = "csh"  -> <<".cshrc", ".login">>
      [] shell_name = "tcsh" -> <<".tcshrc", ".cshrc", ".login">>

\* the command word of env_syntax: export K="V", set -gx K "V", setenv K "V"
env_syntax(shell_name) ==
    CASE shell_name \in {"bash", "zsh"} -> "export"
      [] shell_name = "fish"            -> "set -gx"
      [] shell_name \in {"csh", "tcsh"} -> "setenv"

\* env_syntax.format(key=..., value=...): one line
env_line(shell_name, key, value) == <<env_syntax(shell_name), SP, key, value>>

RcFiles == UNION {{rc_files(s)[i] : i \in 1..Len(rc_files(s))} : s \in Shells}

Absent == [exists |-> FALSE, text |-> <<>>]
File(t) == [exists |-> TRUE, text |-> t]

-----------------------------------------------------------------------------
(* The configuration *)

\* self.config as __init__ sets it
DefaultConfig ==
    [token |-> "", token_type |-> "anthropic", aws_region |-> "",
     aws_profile |-> "", http_proxy |-> "", skip_proxy |-> FALSE,
     keep_node |-> FALSE, force |-> FALSE]

\* the value of node_extra_ca_certs, which no option changes
NodeExtraCaCerts == "/etc/ssl/certs/ca-certificates.crt"

\* what ClaudeInstaller.run stores for `install`: every option given or not
InstallConfigs ==
    [token : {"", "tok"}, token_type : {"anthropic", "bedrock"},
     aws_region : {"", "region"}, aws_profile : {"", "profile"},
     http_proxy : {"", "proxy"}, skip_proxy : BOOLEAN,
     keep_node : {FALSE}, force : BOOLEAN]

\* what ClaudeInstaller.run stores for `uninstall`
UninstallConfigs == {[DefaultConfig EXCEPT !.keep_node = k] : k \in BOOLEAN}

\* datetime.now().strftime('%Y-%m-%d %H:%M:%S'): two different seconds
Timestamps == {"t1", "t2"}

\* the seconds in which the calls of generate_shell_config of one run fall,
\* one call per dialect in the order of the loop: the calls for the first
\* `turn` dialects fall in the first second, the others in the second
Clock(turn) ==
    [s \in Shells |-> IF \E i \in 1..turn : ShellOrder[i] = s THEN "t1" ELSE "t2"]


Turns == 0..Len(ShellOrder)

Clocks == {Clock(turn) : turn \in Turns}

\* the second turns at once, or after the render for a dialect in inst: the
\* turns whose clocks differ for the dialects in inst
TurnOf(turn, inst) == IF turn = 0 THEN TRUE ELSE ShellOrder[turn] \in inst

-----------------------------------------------------------------------------
(* generate_shell_config *)

\* the lines that set NVM_DIR and PATH, per dialect; latest is the name of the
\* newest directory under ~/.nvm/versions/node, "" when there is none
nvm_lines(shell_name, latest) ==
    IF shell_name = "fish" THEN
        << <<"set -gx", SP, "NVM_DIR", "~/.nvm">>,
           <<>>,
           <<"# Add nvm Node.js to PATH">>,
           <<"if test -d $NVM_DIR/versions/node">>,
           <<"for version_dir in (ls -d ... | sort -V -r)">>,
           <<"if test -d $version_dir/bin">>,
           <<"fish_add_path $version_dir/bin">>,
           <<"break">>,
           <<"end">>,
           <<"end">>,
           <<"end">>,
           <<>>,
           <<"fish_add_path", SP, "~/.npm-global/bin">> >>
    ELSE IF shell_name \in {"csh", "tcsh"} THEN
        << <<"setenv", SP, "NVM_DIR", "~/.nvm">>,
           <<>>,
           <<"# Add nvm Node.js to PATH (static - may need adjustment)">> >>
        \o (IF latest # ""
            THEN << <<"if ( -d", SP, latest, "/bin ) then">>,
                    <<"setenv", SP, "PATH", latest, "/bin:$PATH">>,
                    <<"endif">> >>
            ELSE <<>>)
        \o << <<"setenv", SP, "PATH", "~/.npm-global/bin:$PATH">> >>
    ELSE
        << <<"export", SP, "NVM_DIR", "~/.nvm">>,
           <<"[ -s $NVM_DIR/nvm.sh ] && \\. $NVM_DIR/nvm.sh">>,
           <<"[ -s $NVM_DIR/bash_completion ] && \\. $NVM_DIR/bash_completion">>,
           <<>>,
           <<"export", SP, "PATH", "~/.npm-global/bin:$PATH">> >>

\* the token lines, with a variant that sets the variables of both kinds
token_lines_both_kinds(shell_name, config) ==
    IF config.token # ""
    THEN << env_line(shell_name, "AWS_BEARER_TOKEN_BEDROCK", config.token),
            env_line(shell_name, "CLAUDE_CODE_USE_BEDROCK", "1"),
            env_line(shell_name, "ANTHROPIC_API_KEY", config.token) >>
    ELSE <<>>

token_lines(shell_name, config) ==
    IF config.token # "" THEN
        IF config.token_type = "bedrock"
        THEN << env_line(shell_name, "AWS_BEARER_TOKEN_BEDROCK", config.token),
                env_line(shell_name, "CLAUDE_CODE_USE_BEDROCK", "1") >>
        ELSE << env_line(shell_name, "ANTHROPIC_API_KEY", config.token) >>
    ELSE <<>>

region_lines(shell_name, config) ==
    IF config.aws_region # "" THEN
        << env_line(shell_name, "AWS_REGION", config.aws_region) >>
        \o (IF config.token_type = "bedrock"
            THEN << env_line(shell_name, "ANTHROPIC_BEDROCK_REGION", config.aws_region) >>
            ELSE <<>>)
    ELSE <<>>

profile_lines(shell_name, config) ==
    IF config.aws_profile # ""
    THEN << env_line(shell_name, "AWS_PROFILE", config.aws_profile) >>
    ELSE <<>>

proxy_lines(shell_name, config) ==
    IF config.http_proxy # "" /\ ~config.skip_proxy
    THEN << env_line(shell_name, "HTTP_PROXY", config.http_proxy),
            env_line(shell_name, "HTTPS_PROXY", config.http_proxy),
            env_line(shell_name, "http_proxy", config.http_proxy),
            env_line(shell_name, "https_proxy", config.http_proxy) >>
    ELSE <<>>

\* the rendered block: the lines joined by \n, and a final \n
generate_shell_config(shell_name, config, now, latest) ==
    join_lines(
        << CONFIG_START_MARKER, <<"# Generated on", SP, now>>, <<>> >>
        \o nvm_lines(shell_name, latest)
        \o << <<>> >>
        \o token_lines(shell_name, config)
        \o region_lines(shell_name, config)
        \o profile_lines(shell_name, config)
        \o proxy_lines(shell_name, config)
        \o << env_line(shell_name, "NODE_EXTRA_CA_CERTS", NodeExtraCaCerts),
              <<>>,
              CONFIG_END_MARKER >>)
    \o <<LF>>

-----------------------------------------------------------------------------
(* update_shell_config and remove_shell_config, on the files of user_home *)

\* existing_content: "" for a file that does not exist
existing_content(f) == IF f.exists THEN read_text(f.text) ELSE <<>>

\* new_content, but the block of an earlier run is left where it is
new_content_keeps_block(existing, config_content) ==
    IF existing # <<>>
    THEN existing \o <<LF, LF>> \o config_content
    ELSE config_content

\* lines 459-469: the text written for a file whose text is existing
\* ... and a variant that does not strip what is left of the old content
new_content_unstripped(existing, config_content) ==
    LET kept == IF Contains(existing, CONFIG_START_MARKER)
                THEN re_sub_newlines(re_sub_block(existing))
                ELSE existing
    IN  IF kept # <<>> THEN kept \o <<LF, LF>> \o config_content ELSE config_content

\* ... and a variant that cuts from the start marker to the end of the file
new_content_cut_to_end(existing, config_content) ==
    LET kept == IF Contains(existing, CONFIG_START_MARKER)
                THEN strip(SubSeq(existing, 1,
                                  Find(existing, CONFIG_START_MARKER, 1) - 1))
                ELSE existing
    IN  IF kept # <<>> THEN kept \o <<LF, LF>> \o config_content ELSE config_content

new_content(existing, config_content) ==
    LET kept == IF Contains(existing, CONFIG_START_MARKER)
                THEN strip(re_sub_newlines(re_sub_block(existing)))
                ELSE existing
    IN  IF kept # <<>>
        THEN kept \o <<LF, LF>> \o config_content
        ELSE config_content

\* the rc files the loop of update_shell_config reaches: it leaves after its
\* first pass unless the dialect is fish
update_targets(shell_name) ==
    IF shell_name = "fish"
    THEN rc_files(shell_name)
    ELSE SubSeq(rc_files(shell_name), 1, 1)

\* update_shell_config: the files after it, the files it wrote, its result
update_shell_config(fs, shell_name, config, now, latest) ==
    LET config_content == generate_shell_config(shell_name, config, now, latest)
        targets == update_targets(shell_name)
    IN  [files |-> [f \in RcFiles |->
                      IF InSeq(f, targets)
                      THEN File(write_text(new_content(existing_content(fs[f]),
                                                       config_content)))
                      ELSE fs[f]],
         written |-> {f \in RcFiles : InSeq(f, targets)},
         updated_file |-> targets[Len(targets)]]

\* the rc files remove_shell_config rewrites: those that exist and hold the
\* start marker
remove_targets(fs, shell_name) ==
    {f \in RcFiles : /\ InSeq(f, rc_files(shell_name))
                     /\ fs[f].exists
                     /\ Contains(read_text(fs[f].text), CONFIG_START_MARKER)}

\* cleaned_content, but without the newline put back at the end
cleaned_content_bare(content) ==
    strip(re_sub_newlines(re_sub_block(content)))

\* lines 502-504: the text written for a file whose text is content
cleaned_content(content) ==
    strip(re_sub_newlines(re_sub_block(content))) \o <<LF>>

\* remove_shell_config: the files after it, the files it wrote, its result
remove_shell_config(fs, shell_name) ==
    LET targets == remove_targets(fs, shell_name)
    IN  [files |-> [f \in RcFiles |->
                      IF f \in targets
                      THEN File(write_text(cleaned_content(read_text(fs[f].text))))
                      ELSE fs[f]],
         written |-> targets,
         removed |-> targets # {}]

-----------------------------------------------------------------------------
(* The probes and the provisioning steps *)

\* what `node --version` gives: nothing, text that is no version, or vMAJOR.x.y
NoOutput == [found |-> FALSE, parsed |-> FALSE, major |-> 0]
Garbage == [found |-> TRUE, parsed |-> FALSE, major |-> 0]
Version(major) == [found |-> TRUE, parsed |-> TRUE, major |-> major]

\* the least MAJOR check_node_version accepts
MinNodeMajor == 18

NodeOutputs == {NoOutput, Garbage, Version(MinNodeMajor - 1), Version(MinNodeMajor)}

\* check_node_version: (ok, message); with a variant that wants a newer MAJOR
check_node_version_newer(out) ==
    IF ~out.found THEN [ok |-> FALSE, msg |-> "Node.js not found"]
    ELSE IF out.parsed
         THEN IF out.major > MinNodeMajor
              THEN [ok |-> TRUE, msg |-> "OK - >=18"]
              ELSE [ok |-> FALSE, msg |-> "Too old - need >=18"]
         ELSE [ok |-> FALSE, msg |-> "Could not parse Node.js version"]

check_node_version(out) ==
    IF ~out.found THEN [ok |-> FALSE, msg |-> "Node.js not found"]
    ELSE IF out.parsed
         THEN IF out.major >= MinNodeMajor
              THEN [ok |-> TRUE, msg |-> "OK - >=18"]
              ELSE [ok |-> FALSE, msg |-> "Too old - need >=18"]
         ELSE [ok |-> FALSE, msg |-> "Could not parse Node.js version"]

\* the runs of digits the model knows, and int() of each
IntOf == [d \in {"0", "9", "17", "18"} |->
            CASE d = "0" -> 0 [] d = "9" -> 9 [] d = "17" -> 17 [] d = "18" -> 18]

IsDigits(piece) == piece \in DOMAIN IntOf

\* re.search(r'v(\d+)\.(\d+)\.(\d+)', node_version): the index of the leftmost
\* match at or after i, 0 when there is none
RECURSIVE version_match(_, _)
version_match(node_version, i) ==
    IF i + 5 > Len(node_version) THEN 0
    ELSE IF /\ node_version[i] = "v"
            /\ IsDigits(node_version[i + 1])
            /\ node_version[i + 2] = "."
            /\ IsDigits(node_version[i + 3])
            /\ node_version[i + 4] = "."
            /\ IsDigits(node_version[i + 5])
         THEN i
         ELSE version_match(node_version, i + 1)

\* run_command(..., capture_output=True): stdout stripped; nothing on failure
run_command(stdout) == strip(stdout)

\* node_version: what nvm's node printed, else what the system node printed
node_version_of(nvm_stdout, system_stdout) ==
    IF run_command(nvm_stdout) # <<>> THEN run_command(nvm_stdout)
    ELSE run_command(system_stdout)

\* what check_node_version makes of node_version
node_output(node_version) ==
    IF node_version = <<>> THEN NoOutput
    ELSE LET i == version_match(node_version, 1)
         IN  IF i = 0 THEN Garbage
             ELSE Version(IntOf[node_version[i + 1]])

\* the message check_node_version returns, node_version spelled out in it
node_message(msg, node_version) ==
    IF msg = "Node.js not found" THEN <<"Node.js", SP, "not", SP, "found">>
    ELSE IF msg = "Could not parse Node.js version"
    THEN <<"Could not parse Node.js version:", SP>> \o node_version
    ELSE <<"Node.js", SP>> \o node_version \o <<SP, "(", msg, ")">>

\* check_node_version from the two outputs on: (ok, message)
check_node_version_run(nvm_stdout, system_stdout) ==
    LET node_version == node_version_of(nvm_stdout, system_stdout)
        r == check_node_version(node_output(node_version))
    IN  [ok |-> r.ok, msg |-> node_message(r.msg, node_version)]

\* check_npm_version: ok when a version string came back; with a variant that
\* is ok whatever came back
check_npm_version_any(e) == TRUE

check_npm_version(e) == e.npm

\* check_claude_installed: whether the executable was found
check_claude_installed(e) == e.claude

\* the bootstrap install_nvm pipes to bash is nvm's install.sh. The profile
\* it takes (nvm_detect_profile) is the file $PROFILE names when that file
\* exists, whatever its name, else one of .bashrc, .bash_profile, .zshrc,
\* .zprofile and .profile that exists, chosen by $SHELL, else none. To the
\* profile it appends SOURCE_STR, an empty line, the export of NVM_DIR and
\* the line that loads nvm.sh, unless the file mentions /nvm.sh, and then,
\* when the profile is one of bash or zsh, COMPLETION_STR, the line that
\* loads bash_completion, unless the file mentions $NVM_DIR/bash_completion
NvmLoadLine ==
    "[ -s \"$NVM_DIR/nvm.sh\" ] && \\. \"$NVM_DIR/nvm.sh\"  # This loads nvm"

NvmSourceLines == <<LF, "export NVM_DIR=\"$HOME/.nvm\"", LF, NvmLoadLine, LF>>

NvmCompletionLine ==
    "[ -s \"$NVM_DIR/bash_completion\" ] && \\. \"$NVM_DIR/bash_completion\"  # This loads nvm bash_completion"

NvmCompletionLines == <<NvmCompletionLine, LF>>

\* the profiles of bash and zsh (nvm_profile_is_bash_or_zsh)
BashOrZshProfiles == {".bashrc", ".bash_profile", ".zshrc", ".zprofile"}

\* the pieces that mention /nvm.sh and $NVM_DIR/bash_completion: the lines
\* of the bootstrap, and the two lines the block of bash and zsh loads them
\* with
MentionsNvmSh ==
    {NvmLoadLine, "[ -s $NVM_DIR/nvm.sh ] && \\. $NVM_DIR/nvm.sh"}

MentionsCompletion ==
    {NvmCompletionLine,
     "[ -s $NVM_DIR/bash_completion ] && \\. $NVM_DIR/bash_completion"}

\* what one run of a command meets outside the program:
\*   nvm          the bootstrap script leaves ~/.nvm/nvm.sh behind
\*   profile      the profile it then takes, "" for none
\*   nvm_left     a bootstrap that leaves no nvm.sh leaves ~/.nvm behind
\*                (it makes the directory before it clones into it)
\*   boot_latest  the bootstrap leaves a node under ~/.nvm/versions/node
\*                (it installs one when $NODE_VERSION is set)
\*   boot_node    what the version probe gives once nvm.sh is there (the
\*                probes load it, and with it the default version)
\*   boot_npm     npm is found then
\*   boot_claude  the executable is found then
\*   nvm_install  the `nvm install` script leaves a node under
\*                ~/.nvm/versions/node
\*   node         what the version probe gives after that script
\*   npm          npm is found after it
\*   claude       the executable is found after it
\*   primary      `npm install -g` with the custom prefix reports success
\*   fallback     `npm install -g` without it reports success
\*   found        the executable is found after the attempts (npm installs
\*                it under the prefix it is configured with, which need
\*                not be where the probe looks)
\*   un_claude    the executable is still found after the two
\*                `npm uninstall -g` runs (it lives where npm does not look)
\*   un_prefix    ~/.npm-global exists after them (`npm config set prefix`
\*                and `npm uninstall -g` make it)
\*   rm_nvm       shutil.rmtree(nvm_dir) does not raise
\*   rm_npm       shutil.rmtree(npm_global_dir) does not raise
\*   left_sh      ~/.nvm/nvm.sh is still there after a removal that raised
\*   left_latest  and so is the newest directory under ~/.nvm/versions/node
\*   node_after   what the version probe gives after the removals
\*   npm_after    npm is still found after them
\*   claude_after the executable is still found after them
Outcomes ==
    [nvm : BOOLEAN, profile : {""} \cup RcFiles, nvm_left : BOOLEAN,
     boot_latest : BOOLEAN, boot_node : NodeOutputs, boot_npm : BOOLEAN,
     boot_claude : BOOLEAN, nvm_install : BOOLEAN,
     node : NodeOutputs, npm : BOOLEAN, claude : BOOLEAN,
     primary : BOOLEAN, fallback : BOOLEAN, found : BOOLEAN,
     un_claude : BOOLEAN, un_prefix : BOOLEAN,
     rm_nvm : BOOLEAN, rm_npm : BOOLEAN,
     left_sh : BOOLEAN, left_latest : BOOLEAN,
     node_after : NodeOutputs, npm_after : BOOLEAN, claude_after : BOOLEAN]

\* the newest directory under ~/.nvm/versions/node once nvm installed a node
NodeDir == "~/.nvm/versions/node/vNN"

\* a step: the environment after it, the calls it made, its result
Step(e, log, ok) == [env |-> e, log |-> log, ok |-> ok]

\* a step that may leave the rc files changed
StepOn(fs, e, log, ok) == [files |-> fs, env |-> e, log |-> log, ok |-> ok]

\* the text t with `lines` at its end, unless it holds one of `mentions`
\* (grep -qc on the profile)
AppendUnless(t, mentions, lines) ==
    IF \E i \in 1..Len(t) : t[i] \in mentions THEN t ELSE t \o lines

\* the text of the profile after the bootstrap script
nvm_appended(t, profile) ==
    IF profile \in BashOrZshProfiles
    THEN AppendUnless(AppendUnless(t, MentionsNvmSh, NvmSourceLines),
                      MentionsCompletion, NvmCompletionLines)
    ELSE AppendUnless(t, MentionsNvmSh, NvmSourceLines)

\* the rc files after the bootstrap script: the lines the profile it took
\* does not mention yet are at its end
nvm_bootstrap(fs, profile) ==
    IF profile = "" THEN fs
    ELSE IF ~fs[profile].exists THEN fs
    ELSE [fs EXCEPT ![profile] = File(nvm_appended(fs[profile].text, profile))]

\* what the probes find once the bootstrap has left nvm.sh: each probe loads
\* nvm.sh first, which puts the default version of ~/.nvm/versions/node on
\* the PATH, so that with a version there, one that was there or one the
\* bootstrap installed, another node, npm and tool may be found, and with
\* none the probes find what they found
after_nvm_bootstrap(e, out) ==
    IF e.latest = "" /\ ~out.boot_latest
    THEN [e EXCEPT !.nvm_sh = TRUE, !.nvm_dir = TRUE]
    ELSE [e EXCEPT !.nvm_sh = TRUE, !.nvm_dir = TRUE,
                   !.latest = NodeDir,
                   !.node = out.boot_node,
                   !.npm = out.boot_npm,
                   !.claude = out.boot_claude]

\* install_nvm: the bootstrap appends to the profile before it fetches
\* nvm.sh, and whether or not it gets it
install_nvm(fs, e, out) ==
    IF e.nvm_sh
    THEN StepOn(fs, e, <<>>, TRUE)
    ELSE IF out.nvm
         THEN StepOn(nvm_bootstrap(fs, out.profile),
                     after_nvm_bootstrap(e, out),
                     << <<"nvm bootstrap", "">> >>, TRUE)
         ELSE StepOn(nvm_bootstrap(fs, out.profile),
                     [e EXCEPT !.nvm_dir = e.nvm_dir \/ out.nvm_left],
                     << <<"nvm bootstrap", "">> >>, FALSE)

\* what the probes find once the script of install_node has run: `nvm
\* install`, then `nvm use` and `nvm alias default` whether or not it
\* installed a node. The script changes which node is first on the PATH, and
\* with it the npm and the tool that are found: a node, an npm and a tool
\* found before may not be found any more, and the ones of a version that
\* was under ~/.nvm/versions/node may be found now
after_nvm_install(e, out) ==
    [e EXCEPT !.node = out.node,
              !.npm = out.npm,
              !.claude = out.claude,
              !.latest = IF out.nvm_install THEN NodeDir ELSE e.latest]

\* install_node
install_node(fs, e, config, out) ==
    IF check_node_version(e.node).ok /\ ~config.force
    THEN StepOn(fs, e, <<>>, TRUE)
    ELSE LET nvm == IF e.nvm_sh THEN StepOn(fs, e, <<>>, TRUE)
                    ELSE LET r == install_nvm(fs, e, out)
                         IN  StepOn(r.files, r.env,
                                    << <<"install_nvm", "install_node">> >> \o r.log,
                                    r.ok)
         IN  IF ~nvm.ok THEN StepOn(nvm.files, nvm.env, nvm.log, FALSE)
             ELSE LET after == after_nvm_install(nvm.env, out)
                  IN  StepOn(nvm.files, after,
                             nvm.log \o << <<"nvm install", "">> >>,
                             check_node_version(after.node).ok)

\* install_claude_code, the log keeping what run_command returned for each
\* attempt, and the tool found after them or not whatever they returned;
\* with a variant that gives up after the first attempt
install_claude_code_one_attempt(e, config, out) ==
    IF check_claude_installed(e) /\ ~config.force
    THEN Step(e, <<>>, TRUE)
    ELSE LET made == [e EXCEPT !.npm_global_dir = TRUE, !.claude = out.found]
         IN  IF out.primary
             THEN Step(made, << <<"npm install (prefix)", "success">> >>, TRUE)
             ELSE Step(made, << <<"npm install (prefix)", "None">> >>, FALSE)

install_claude_code(e, config, out) ==
    IF check_claude_installed(e) /\ ~config.force
    THEN Step(e, <<>>, TRUE)
    ELSE LET made == [e EXCEPT !.npm_global_dir = TRUE, !.claude = out.found]
         IN  IF out.primary
             THEN Step(made, << <<"npm install (prefix)", "success">> >>, TRUE)
             ELSE IF out.fallback
                  THEN Step(made,
                            << <<"npm install (prefix)", "None">>,
                               <<"npm install (no prefix)", "success">> >>, TRUE)
                  ELSE Step(made,
                            << <<"npm install (prefix)", "None">>,
                               <<"npm install (no prefix)", "None">> >>, FALSE)

\* uninstall_claude_code: both attempts are made, their results dropped
uninstall_claude_code(e, out) ==
    Step([e EXCEPT !.claude = e.claude /\ out.un_claude,
                   !.npm_global_dir = e.npm_global_dir \/ out.un_prefix],
         << <<"npm uninstall (prefix)", "">>, <<"npm uninstall (no prefix)", "">> >>,
         TRUE)

\* what the probes find once a removal has been attempted: what lived under
\* a removed directory is not found any more, and another node may be
after_removal(e, out) ==
    [e EXCEPT !.node = IF e.node.found THEN out.node_after ELSE e.node,
              !.npm = e.npm /\ out.npm_after,
              !.claude = e.claude /\ out.claude_after]

\* uninstall_node_nvm
uninstall_node_nvm(e, out) ==
    LET nvm == IF ~e.nvm_dir THEN Step(e, <<>>, TRUE)
               ELSE IF out.rm_nvm
                    THEN Step([after_removal(e, out) EXCEPT
                                 !.nvm_dir = FALSE, !.nvm_sh = FALSE,
                                 !.latest = ""],
                              << <<"rmtree nvm_dir", "">> >>, TRUE)
                    ELSE Step([after_removal(e, out) EXCEPT
                                 !.nvm_sh = e.nvm_sh /\ out.left_sh,
                                 !.latest = IF out.left_latest THEN e.latest
                                            ELSE ""],
                              << <<"rmtree nvm_dir", "">> >>, FALSE)
    IN  IF ~nvm.ok THEN nvm
        ELSE IF ~nvm.env.npm_global_dir THEN nvm
        ELSE IF out.rm_npm
             THEN Step([after_removal(nvm.env, out) EXCEPT !.npm_global_dir = FALSE],
                       nvm.log \o << <<"rmtree npm_global_dir", "">> >>, TRUE)
             ELSE Step(after_removal(nvm.env, out),
                       nvm.log \o << <<"rmtree npm_global_dir", "">> >>, TRUE)

-----------------------------------------------------------------------------
(* The loops over the installed dialects *)

\* for shell_name, is_installed in shells.items(): update_shell_config, from
\* the i-th dialect on; the render for a dialect falls in the second now[dialect]
RECURSIVE update_installed(_, _, _, _, _, _)
update_installed(fs, i, inst, config, now, latest) ==
    IF i > Len(ShellOrder) THEN [files |-> fs, written |-> {}, log |-> <<>>]
    ELSE IF ShellOrder[i] \notin inst
         THEN update_installed(fs, i + 1, inst, config, now, latest)
         ELSE LET r == update_shell_config(fs, ShellOrder[i], config,
                                           now[ShellOrder[i]], latest)
                  rest == update_installed(r.files, i + 1, inst, config, now, latest)
              IN  [files |-> rest.files,
                   written |-> r.written \cup rest.written,
                   log |-> << <<"update_shell_config", ShellOrder[i]>> >> \o rest.log]

\* remove_installed, with a variant that stops after the first installed dialect
RECURSIVE remove_installed_first(_, _, _)
remove_installed_first(fs, i, inst) ==
    IF i > Len(ShellOrder) THEN [files |-> fs, written |-> {}, log |-> <<>>]
    ELSE IF ShellOrder[i] \notin inst
         THEN remove_installed_first(fs, i + 1, inst)
         ELSE LET r == remove_shell_config(fs, ShellOrder[i])
              IN  [files |-> r.files,
                   written |-> r.written,
                   log |-> << <<"remove_shell_config", ShellOrder[i]>> >>]

\* for shell_name, is_installed in shells.items(): remove_shell_config
RECURSIVE remove_installed(_, _, _)
remove_installed(fs, i, inst) ==
    IF i > Len(ShellOrder) THEN [files |-> fs, written |-> {}, log |-> <<>>]
    ELSE IF ShellOrder[i] \notin inst
         THEN remove_installed(fs, i + 1, inst)
         ELSE LET r == remove_shell_config(fs, ShellOrder[i])
                  rest == remove_installed(r.files, i + 1, inst)
              IN  [files |-> rest.files,
                   written |-> r.written \cup rest.written,
                   log |-> << <<"remove_shell_config", ShellOrder[i]>> >> \o rest.log]

-----------------------------------------------------------------------------
(* The commands *)

Result(fs, e, written, log, rc) ==
    [files |-> fs, env |-> e, written |-> written, log |-> log, rc |-> rc]

\* what a step returned, as the log keeps it
Returned(name, ok) == <<name, IF ok THEN "True" ELSE "False">>

\* cmd_install when the tool is found and --force is not given, with a
\* variant that updates the shell configurations whatever the token
cmd_install_shortcut_any_token(fs, e, inst, config, now) ==
    LET u == update_installed(fs, 1, inst, config, now, e.latest)
    IN  Result(u.files, e, u.written, u.log, 0)

cmd_install_shortcut(fs, e, inst, config, now) ==
    IF config.token # ""
    THEN LET u == update_installed(fs, 1, inst, config, now, e.latest)
         IN  Result(u.files, e, u.written, u.log, 0)
    ELSE Result(fs, e, {}, <<>>, 0)

\* cmd_install from step 1 on, with a variant that goes on after a runtime
\* that failed to install
cmd_install_steps_past_node(fs, e, inst, config, now, out) ==
    LET s1 == install_nvm(fs, e, out)
        l1 == << <<"install_nvm", "">> >> \o s1.log
              \o <<Returned("install_nvm", s1.ok)>>
    IN  IF ~s1.ok THEN Result(s1.files, s1.env, {}, l1, 1)
        ELSE
        LET s2 == install_node(s1.files, s1.env, config, out)
            l2 == l1 \o << <<"install_node", "">> >> \o s2.log
                  \o <<Returned("install_node", s2.ok)>>
            s3 == install_claude_code(s2.env, config, out)
            l3 == l2 \o << <<"install_claude_code", "">> >> \o s3.log
                  \o <<Returned("install_claude_code", s3.ok)>>
        IN  IF ~s3.ok THEN Result(s2.files, s3.env, {}, l3, 1)
            ELSE
            LET u == update_installed(s2.files, 1, inst, config, now,
                                      s3.env.latest)
            IN  Result(u.files, s3.env, u.written,
                       l3 \o u.log \o << <<"check_claude_installed", "">> >>, 0)

cmd_install_steps(fs, e, inst, config, now, out) ==
    LET s1 == install_nvm(fs, e, out)
        l1 == << <<"install_nvm", "">> >> \o s1.log
              \o <<Returned("install_nvm", s1.ok)>>
    IN  IF ~s1.ok THEN Result(s1.files, s1.env, {}, l1, 1)
        ELSE
        LET s2 == install_node(s1.files, s1.env, config, out)
            l2 == l1 \o << <<"install_node", "">> >> \o s2.log
                  \o <<Returned("install_node", s2.ok)>>
        IN  IF ~s2.ok THEN Result(s2.files, s2.env, {}, l2, 1)
            ELSE
            LET s3 == install_claude_code(s2.env, config, out)
                l3 == l2 \o << <<"install_claude_code", "">> >> \o s3.log
                      \o <<Returned("install_claude_code", s3.ok)>>
            IN  IF ~s3.ok THEN Result(s2.files, s3.env, {}, l3, 1)
                ELSE
                LET u == update_installed(s2.files, 1, inst, config, now,
                                          s3.env.latest)
                IN  Result(u.files, s3.env, u.written,
                           l3 \o u.log \o << <<"check_claude_installed", "">> >>, 0)

\* cmd_install
cmd_install(fs, e, inst, config, now, out) ==
    LET r == IF check_claude_installed(e) /\ ~config.force
             THEN cmd_install_shortcut(fs, e, inst, config, now)
             ELSE cmd_install_steps(fs, e, inst, config, now, out)
    IN  [r EXCEPT !.log = << <<"check_claude_installed", "">> >> \o r.log]

\* the dialects cmd_check reports as configured: some candidate file exists
\* and holds the start marker
configured(fs, inst) ==
    {s \in inst : \E i \in 1..Len(rc_files(s)) :
        /\ fs[rc_files(s)[i]].exists
        /\ Contains(read_text(fs[rc_files(s)[i]].text), CONFIG_START_MARKER)}

\* the variables cmd_check looks up; a value is a sequence of characters,
\* <<>> for a variable that is not set (or set to nothing)
EnvVars ==
    {"ANTHROPIC_API_KEY", "AWS_BEARER_TOKEN_BEDROCK", "AWS_REGION",
     "AWS_PROFILE", "HTTP_PROXY"}

\* the variables of the loop, in its order
EchoedVars == <<"AWS_BEARER_TOKEN_BEDROCK", "AWS_REGION", "AWS_PROFILE", "HTTP_PROXY">>

\* 'TOKEN' in var or 'KEY' in var, for the variables of the loop
is_secret(var) == var = "AWS_BEARER_TOKEN_BEDROCK"

\* what cmd_check shows of ANTHROPIC_API_KEY; with a variant that shows it all
mask_api_key_plain(api_key) == api_key

mask_api_key(api_key) ==
    IF Len(api_key) > 14
    THEN SubSeq(api_key, 1, 10) \o <<"...">>
         \o SubSeq(api_key, Len(api_key) - 3, Len(api_key))
    ELSE <<"***">>

\* what cmd_check shows of a variable of the loop
mask_value(var, value) ==
    IF is_secret(var)
    THEN IF Len(value) > 10 THEN SubSeq(value, 1, 10) \o <<"...">> ELSE <<"***">>
    ELSE value

\* the lines of the loop, from the i-th variable on: one for each that is set
RECURSIVE echoed(_, _)
echoed(environ, i) ==
    IF i > Len(EchoedVars) THEN <<>>
    ELSE (IF environ[EchoedVars[i]] # <<>>
          THEN << <<EchoedVars[i], mask_value(EchoedVars[i], environ[EchoedVars[i]])>> >>
          ELSE <<>>)
         \o echoed(environ, i + 1)

\* the lines of cmd_check about the environment variables
environ_report(environ) ==
    << <<"ANTHROPIC_API_KEY",
         IF environ["ANTHROPIC_API_KEY"] # <<>>
         THEN mask_api_key(environ["ANTHROPIC_API_KEY"])
         ELSE <<"Not set">> >> >>
    \o echoed(environ, 1)

\* the lines of cmd_check about the installed dialects, from the i-th on
RECURSIVE shell_report(_, _, _)
shell_report(fs, inst, i) ==
    IF i > Len(ShellOrder) THEN <<>>
    ELSE (IF ShellOrder[i] \notin inst THEN <<>>
          ELSE << <<ShellOrder[i],
                    IF ShellOrder[i] \in configured(fs, inst)
                    THEN "Configured" ELSE "Not configured">> >>)
         \o shell_report(fs, inst, i + 1)

\* cmd_check: environ is os.environ, for the variables cmd_check looks up
cmd_check(fs, e, inst, environ) ==
    LET node == check_node_version(e.node)
        all_ok0 == TRUE
        all_ok1 == IF node.ok THEN all_ok0 ELSE FALSE
        all_ok2 == IF check_npm_version(e) THEN all_ok1 ELSE FALSE
        is_installed == check_claude_installed(e)
        all_ok == IF is_installed THEN all_ok2 ELSE FALSE
        log == << <<"check_node_version", node.msg>>,
                  <<"check_npm_version", "">>,
                  <<"nvm.sh", IF e.nvm_sh THEN "Installed" ELSE "Not installed">>,
                  <<"check_claude_installed", "">> >>
               \o environ_report(environ) \o shell_report(fs, inst, 1)
    IN  Result(fs, e, {}, log, IF all_ok /\ is_installed THEN 0 ELSE 1)

\* the steps of cmd_uninstall, `stripped` being what its loop over
\* remove_shell_config gives (the rc files it leaves depend on nothing the
\* steps before it met); with a variant that gives up when the removal of
\* the directories fails
cmd_uninstall_steps_gives_up(fs, stripped, e, config, out) ==
    LET s1 == uninstall_claude_code(e, out)
        l1 == << <<"uninstall_claude_code", "">> >> \o s1.log
        s2 == IF ~config.keep_node
              THEN LET r == uninstall_node_nvm(s1.env, out)
                   IN  Step(r.env, << <<"uninstall_node_nvm", "">> >> \o r.log, r.ok)
              ELSE Step(s1.env, <<>>, TRUE)
    IN  IF ~s2.ok THEN Result(fs, s2.env, {}, l1 \o s2.log, 1)
        ELSE Result(stripped.files, s2.env, stripped.written,
                    l1 \o s2.log \o stripped.log, 0)

cmd_uninstall_steps(fs, stripped, e, config, out) ==
    LET s1 == uninstall_claude_code(e, out)
        l1 == << <<"uninstall_claude_code", "">> >> \o s1.log
        s2 == IF ~config.keep_node
              THEN LET r == uninstall_node_nvm(s1.env, out)
                   IN  Step(r.env, << <<"uninstall_node_nvm", "">> >> \o r.log, r.ok)
              ELSE Step(s1.env, <<>>, TRUE)
    IN  Result(stripped.files, s2.env, stripped.written,
               l1 \o s2.log \o stripped.log, 0)

\* cmd_uninstall
cmd_uninstall(fs, e, inst, config, out) ==
    cmd_uninstall_steps(fs, remove_installed(fs, 1, inst), e, config, out)

-----------------------------------------------------------------------------
(* The state and the operations *)

NoOp(fs, e) ==
    [name |-> "none", shell |-> "", config |-> DefaultConfig,
     now |-> "", prev |-> fs, penv |-> e, written |-> {}, log |-> <<>>,
     updated_file |-> "", removed |-> FALSE, rc |-> 0,
     arg |-> <<>>, ok |-> FALSE, result |-> <<>>]

\* the operation is one of at most `limit`; no limit when limit is 0
Counted(limit) ==
    /\ limit > 0 => runs < limit
    /\ runs' = IF limit > 0 THEN runs + 1 ELSE runs

\* one call of update_shell_config(shell_name)
UpdateShellConfig(shell_name, config, now, limit) ==
    LET r == update_shell_config(files, shell_name, config, now, env.latest)
    IN  /\ Counted(limit)
        /\ files' = r.files
        /\ op' = [NoOp(files, env) EXCEPT
                    !.name = "update_shell_config",
                    !.shell = shell_name, !.config = config, !.now = now,
                    !.written = r.written, !.updated_file = r.updated_file]
        /\ UNCHANGED <<env, installed, home0>>

\* one call of remove_shell_config(shell_name)
RemoveShellConfig(shell_name, limit) ==
    LET r == remove_shell_config(files, shell_name)
    IN  /\ Counted(limit)
        /\ files' = r.files
        /\ op' = [NoOp(files, env) EXCEPT
                    !.name = "remove_shell_config",
                    !.shell = shell_name,
                    !.written = r.written, !.removed = r.removed]
        /\ UNCHANGED <<env, installed, home0>>

\* one call of generate_shell_config(shell_name)
GenerateShellConfig(shell_name, config, now, limit) ==
    /\ Counted(limit)
    /\ op' = [NoOp(files, env) EXCEPT
                !.name = "generate_shell_config",
                !.shell = shell_name, !.config = config, !.now = now,
                !.result = generate_shell_config(shell_name, config, now,
                                                 env.latest)]
    /\ UNCHANGED <<files, env, installed, home0>>

\* one call of check_node_version, with what the two `node --version` print
CheckNodeVersion(nvm_stdout, system_stdout, limit) ==
    LET r == check_node_version_run(nvm_stdout, system_stdout)
    IN  /\ Counted(limit)
        /\ op' = [NoOp(files, env) EXCEPT
                    !.name = "check_node_version",
                    !.arg = <<nvm_stdout, system_stdout>>,
                    !.ok = r.ok, !.result = r.msg]
        /\ UNCHANGED <<files, env, installed, home0>>

\* the outcomes of the calls a run does not make are not drawn: they stay
\* as in AllOk
AllOk ==
    [nvm |-> TRUE, profile |-> "", nvm_left |-> FALSE,
     boot_latest |-> FALSE, boot_node |-> NoOutput, boot_npm |-> FALSE,
     boot_claude |-> FALSE, nvm_install |-> TRUE,
     node |-> Version(MinNodeMajor), npm |-> TRUE, claude |-> TRUE,
     primary |-> TRUE, fallback |-> TRUE, found |-> TRUE,
     un_claude |-> FALSE, un_prefix |-> FALSE,
     rm_nvm |-> TRUE, rm_npm |-> TRUE,
     left_sh |-> FALSE, left_latest |-> FALSE,
     node_after |-> NoOutput, npm_after |-> FALSE, claude_after |-> FALSE]

\* what the bootstrap may leave for the probes: a version directory or not
\* when there was none, and with one any answer of the probes
BootProbes(e, o) ==
    (IF e.latest = "" THEN {[o EXCEPT !.nvm = TRUE]} ELSE {})
    \cup {[o EXCEPT !.nvm = TRUE, !.boot_latest = TRUE, !.boot_node = n,
                    !.boot_npm = m, !.boot_claude = c] :
             n \in NodeOutputs, m \in BOOLEAN, c \in BOOLEAN}

\* the outcomes install_nvm may meet, the outcomes drawn before it being
\* those of o: none when nvm.sh is there; else the bootstrap takes no
\* profile or an rc file it appends to (taking one it appends nothing to is
\* taking none), and it leaves no nvm.sh, and ~/.nvm or not, or it leaves
\* nvm.sh
BootstrapOutcomes(fs, e, o) ==
    IF e.nvm_sh THEN {o}
    ELSE UNION {{[o EXCEPT !.profile = p, !.nvm = FALSE, !.nvm_left = c] :
                    c \in IF e.nvm_dir THEN {FALSE} ELSE BOOLEAN}
                \cup BootProbes(e, [o EXCEPT !.profile = p]) :
                   p \in {""} \cup {f \in RcFiles : nvm_bootstrap(fs, f) # fs}}

\* the outcomes the script of install_node may meet: anything the probes
\* can find after it, and a node left under ~/.nvm/versions/node or not when
\* there was none
ScriptOutcomes(e, o) ==
    {[o EXCEPT !.nvm_install = i, !.node = n, !.npm = m, !.claude = c] :
        i \in IF e.latest = "" THEN BOOLEAN ELSE {TRUE},
        n \in NodeOutputs, m \in BOOLEAN, c \in BOOLEAN}

\* the outcomes install_node may meet: of install_nvm when it calls it, then
\* of its script
NodeOutcomes(fs, e, config, o) ==
    IF check_node_version(e.node).ok /\ ~config.force THEN {o}
    ELSE UNION {IF e.nvm_sh \/ a.nvm
                THEN ScriptOutcomes(install_nvm(fs, e, a).env, a) ELSE {a} :
                   a \in BootstrapOutcomes(fs, e, o)}

\* the outcomes install_claude_code may meet: of the attempts it makes, and
\* the tool found after them or not
ToolOutcomes(e, config, o) ==
    IF check_claude_installed(e) /\ ~config.force THEN {o}
    ELSE {[o EXCEPT !.primary = TRUE, !.found = c] : c \in BOOLEAN}
         \cup {[o EXCEPT !.primary = FALSE, !.fallback = f, !.found = c] :
                  f \in BOOLEAN, c \in BOOLEAN}

\* the outcomes of install_nvm a run of `install` may meet: when install_node
\* goes on to run its script, which overwrites all that the bootstrap left
\* for the probes, the bootstrap is drawn as having left them nothing (any
\* other draw gives the same run); when install_node returns on what the
\* probes find, any draw
BootstrapDraws(fs, e, config) ==
    {a \in BootstrapOutcomes(fs, e, AllOk) :
        (/\ a.nvm
         /\ \/ config.force
            \/ ~check_node_version(install_nvm(fs, e, a).env.node).ok) =>
           /\ a.boot_node = NoOutput
           /\ ~a.boot_npm
           /\ ~a.boot_claude}

\* what a run of `install` may meet: the outcomes of the calls it reaches,
\* and, when it gets to render the blocks, the turn of the second, after any
\* of the renders it makes (a run that stops before has the one clock)
InstallOutcomes(fs, e, inst, config) ==
    LET Stops(o) == {[out |-> o, turn |-> 0]}
        Renders(o) == {[out |-> o, turn |-> t] : t \in {u \in Turns : TurnOf(u, inst)}}
    IN  IF check_claude_installed(e) /\ ~config.force
        THEN IF config.token # "" THEN Renders(AllOk) ELSE Stops(AllOk)
        ELSE UNION {
               LET nvm == install_nvm(fs, e, a)
               IN  IF ~nvm.ok THEN Stops(a)
                   ELSE UNION {
                          LET node == install_node(nvm.files, nvm.env, config, b)
                          IN  IF ~node.ok THEN Stops(b)
                              ELSE UNION {
                                     IF install_claude_code(node.env, config, c).ok
                                     THEN Renders(c) ELSE Stops(c) :
                                     c \in ToolOutcomes(node.env, config, b)} :
                          b \in NodeOutcomes(nvm.files, nvm.env, config, a)} :
               a \in BootstrapDraws(fs, e, config)}

\* the outcomes uninstall_claude_code may meet: the tool still found when it
\* was, ~/.npm-global made when it was not there
ToolRemovalOutcomes(e, o) ==
    {[o EXCEPT !.un_claude = a, !.un_prefix = b] :
        a \in IF e.claude THEN BOOLEAN ELSE {FALSE},
        b \in IF e.npm_global_dir THEN {FALSE} ELSE BOOLEAN}

\* the outcomes uninstall_node_nvm may meet: of the removals it attempts,
\* and of what they may take away
RemovalOutcomes(e, o) ==
    LET nvm == IF ~e.nvm_dir THEN {o}
               ELSE {[o EXCEPT !.rm_nvm = TRUE]}
                    \cup {[o EXCEPT !.rm_nvm = FALSE, !.left_sh = a,
                                    !.left_latest = b] :
                             a \in IF e.nvm_sh THEN BOOLEAN ELSE {FALSE},
                             b \in IF e.latest # "" THEN BOOLEAN ELSE {FALSE}}
        npm == UNION {IF e.npm_global_dir /\ (~e.nvm_dir \/ r.rm_nvm)
                      THEN {[r EXCEPT !.rm_npm = c] : c \in BOOLEAN}
                      ELSE {r} :
                         r \in nvm}
    IN  IF ~e.nvm_dir /\ ~e.npm_global_dir THEN {o}
        ELSE UNION {{[r EXCEPT !.node_after = n, !.npm_after = m,
                               !.claude_after = c] :
                        n \in IF e.node.found THEN NodeOutputs ELSE {NoOutput},
                        m \in IF e.npm THEN BOOLEAN ELSE {FALSE},
                        c \in IF e.claude THEN BOOLEAN ELSE {FALSE}} :
                       r \in npm}

\* the outcomes a run of `uninstall` may meet
UninstallOutcomes(e, config) ==
    UNION {IF config.keep_node THEN {a}
           ELSE RemovalOutcomes(uninstall_claude_code(e, a).env, a) :
              a \in ToolRemovalOutcomes(e, AllOk)}

\* one call of install_claude_code, with any outcome of its attempts
InstallClaudeCode(config, limit) ==
    /\ Counted(limit)
    /\ \E out \in ToolOutcomes(env, config, AllOk) :
          \E r \in {install_claude_code(env, config, out)} :
             /\ env' = r.env
             /\ op' = [NoOp(files, env) EXCEPT
                         !.name = "install_claude_code",
                         !.config = config, !.log = r.log, !.ok = r.ok]
    /\ UNCHANGED <<files, installed, home0>>

\* one call of uninstall_node_nvm, with any outcome of its removals
UninstallNodeNvm(limit) ==
    /\ Counted(limit)
    /\ \E out \in RemovalOutcomes(env, AllOk) :
          \E r \in {uninstall_node_nvm(env, out)} :
             /\ env' = r.env
             /\ op' = [NoOp(files, env) EXCEPT
                         !.name = "uninstall_node_nvm", !.log = r.log,
                         !.ok = r.ok]
    /\ UNCHANGED <<files, installed, home0>>

\* the second of each render a run made, "" for a dialect it did not render
Rendered(now, inst, written) ==
    [s \in Shells |->
        IF s \in inst /\ rc_files(s)[1] \in written THEN now[s] ELSE ""]

\* one run of `install`, with any outcome of the calls it reaches, the
\* second turning after any render
CmdInstall(config, limit) ==
    /\ Counted(limit)
    /\ \E met \in InstallOutcomes(files, env, installed, config) :
          \E r \in {cmd_install(files, env, installed, config,
                                 Clock(met.turn), met.out)} :
             /\ files' = r.files
             /\ env' = r.env
             /\ op' = [NoOp(files, env) EXCEPT
                         !.name = "cmd_install",
                         !.config = config,
                         !.now = Rendered(Clock(met.turn), installed, r.written),
                         !.written = r.written, !.log = r.log,
                         !.rc = r.rc]
    /\ UNCHANGED <<installed, home0>>

\* one run of `check`
CmdCheck(environ, limit) ==
    LET r == cmd_check(files, env, installed, environ)
    IN  /\ Counted(limit)
        /\ files' = r.files
        /\ env' = r.env
        /\ op' = [NoOp(files, env) EXCEPT
                    !.name = "cmd_check", !.arg = environ,
                    !.written = r.written, !.log = r.log, !.rc = r.rc]
        /\ UNCHANGED <<installed, home0>>

\* one run of `uninstall`, with any outcome of the calls it makes
CmdUninstall(config, limit) ==
    /\ Counted(limit)
    /\ \E stripped \in {remove_installed(files, 1, installed)},
          out \in UninstallOutcomes(env, config) :
          /\ \E r \in {cmd_uninstall_steps(files, stripped, env, config, out)} :
                /\ files' = r.files
                /\ env' = r.env
                /\ op' = [NoOp(files, env) EXCEPT
                            !.name = "cmd_uninstall",
                            !.config = config,
                            !.written = r.written, !.log = r.log, !.rc = r.rc]
    /\ UNCHANGED <<installed, home0>>

-----------------------------------------------------------------------------
(* SpecEdit: one rc file of any text, edited over and over *)

\* a machine on which nothing is installed yet
FreshEnv ==
    [claude |-> FALSE, nvm_sh |-> FALSE, nvm_dir |-> FALSE, node |-> NoOutput,
     npm |-> FALSE, npm_global_dir |-> FALSE, latest |-> ""]

\* the characters of user text: the halves of the start marker, the two line
\* ends, a non-whitespace character
UserChars == {"S1", "S2", LF, CR, "u"}

\* what stands between: nothing, a block, a lone start marker, a lone end marker
Mids ==
    { <<>>,
      CONFIG_START_MARKER \o <<LF, "u", LF>> \o CONFIG_END_MARKER,
      CONFIG_START_MARKER,
      CONFIG_END_MARKER }

\* user text, then possibly a block or a marker, then user text
EditTexts ==
    UNION {{pre \o mid \o post :
               mid \in Mids, post \in Strs(UserChars, MaxLen - Len(pre))} :
           pre \in Strs(UserChars, MaxLen)}

\* the configuration of `install --token tok`
EditConfigs == {[DefaultConfig EXCEPT !.token = "tok"]}

\* the rc file SpecEdit edits: the first candidate of bash
EditFile == ".bashrc"

InitEdit ==
    /\ \E f \in {Absent} \cup {File(t) : t \in EditTexts} :
          files = [x \in RcFiles |-> IF x = EditFile THEN f ELSE Absent]
    /\ env = FreshEnv
    /\ installed = {"bash"}
    /\ op = NoOp(files, env)
    /\ home0 = files
    /\ runs = 0

NextEdit ==
    \/ \E config \in EditConfigs, now \in Timestamps :
          UpdateShellConfig("bash", config, now, 0)
    \/ RemoveShellConfig("bash", 0)

SpecEdit == InitEdit /\ [][NextEdit]_vars

-----------------------------------------------------------------------------
(* SpecHome: a home directory with a few rc files, and single calls of      *)
(* update_shell_config and remove_shell_config for any dialect             *)

\* an rc file the user wrote, and one that also holds the block of a past run
UserText == <<"u", LF>>
BlockText ==
    <<"u", LF, LF>> \o CONFIG_START_MARKER \o <<LF, "u", LF>>
    \o CONFIG_END_MARKER \o <<LF>>

\* the home directories with at most MaxFiles rc files
Homes ==
    {h \in [RcFiles -> {Absent, File(UserText), File(BlockText)}] :
        Cardinality({f \in RcFiles : h[f].exists}) <= MaxFiles}

InitHome ==
    /\ files \in Homes
    /\ env = FreshEnv
    /\ installed = Shells
    /\ op = NoOp(files, env)
    /\ home0 = files
    /\ runs = 0

NextHome ==
    \/ \E shell_name \in Shells, config \in EditConfigs, now \in Timestamps :
          UpdateShellConfig(shell_name, config, now, MaxEdits)
    \/ \E shell_name \in Shells : RemoveShellConfig(shell_name, MaxEdits)

SpecHome == InitHome /\ [][NextHome]_vars

-----------------------------------------------------------------------------
(* Spec: one run of the program, which is one command                      *)

\* what the probes may find when the program starts: any answer of each,
\* with nvm.sh and the version directories inside ~/.nvm
CmdEnvs ==
    {e \in [claude : BOOLEAN, nvm_sh : BOOLEAN, nvm_dir : BOOLEAN,
            node : NodeOutputs, npm : BOOLEAN, npm_global_dir : BOOLEAN,
            latest : {"", NodeDir}] :
        /\ e.nvm_sh => e.nvm_dir
        /\ e.latest # "" => e.nvm_dir}

\* the dialects found installed: none, the two that share .cshrc, all
CmdInstalled == {{}, {"csh", "tcsh"}, Shells}

\* the home directories of Spec: no rc file; every rc file with the same text;
\* the first candidate of every dialect missing and the others with a block;
\* the home a run of `install` with a token left, the first candidate of
\* every dialect holding the block the program renders
CmdHomes ==
    {[f \in RcFiles |-> x] : x \in {Absent, File(UserText), File(BlockText)}}
    \cup {[f \in RcFiles |-> IF \E s \in Shells : rc_files(s)[1] = f
                              THEN Absent ELSE File(BlockText)]}
    \cup {update_installed([f \in RcFiles |-> Absent], 1, Shells,
                           [DefaultConfig EXCEPT !.token = "tok"], Clock(0),
                           NodeDir).files}

\* the arguments of `install`: a token or none, with --force or not, or with
\* the other options (--aws-region, --aws-profile, --proxy)
CmdConfigs ==
    {[DefaultConfig EXCEPT !.token = t, !.force = f] :
        t \in {"", "tok"}, f \in BOOLEAN}
    \cup {[DefaultConfig EXCEPT !.token = t, !.aws_region = "region",
                                !.aws_profile = "profile", !.http_proxy = "proxy"] :
             t \in {"", "tok"}}

\* twenty different characters for the key and twenty others for the bearer
\* token, and the values made of the first n
SecretChars ==
    <<"a", "b", "c", "d", "e", "f", "g", "h", "i", "j",
      "k", "l", "m", "n", "o", "p", "q", "r", "s", "t">>

TokenChars ==
    <<"A", "B", "C", "D", "E", "F", "G", "H", "I", "J",
      "K", "L", "M", "N", "O", "P", "Q", "R", "S", "T">>

Value(n) == SubSeq(SecretChars, 1, n)
TokenValue(n) == SubSeq(TokenChars, 1, n)

\* os.environ with a key and a bearer token of these lengths, and the three
\* other variables set or not
Environ(key_len, token_len, others) ==
    [var \in EnvVars |->
        CASE var = "ANTHROPIC_API_KEY" -> Value(key_len)
          [] var = "AWS_BEARER_TOKEN_BEDROCK" -> TokenValue(token_len)
          [] OTHER -> IF others THEN <<"o">> ELSE <<>>]

\* the environments `check` may find in Spec: each secret unset or long
Environs == {Environ(k, t, FALSE) : k \in {0, 20}, t \in {0, 20}}

\* a machine on which everything is installed
ReadyEnv ==
    [claude |-> TRUE, nvm_sh |-> TRUE, nvm_dir |-> TRUE,
     node |-> Version(MinNodeMajor), npm |-> TRUE, npm_global_dir |-> TRUE,
     latest |-> NodeDir]

\* the home directory without rc files
NoRcFile == [f \in RcFiles |-> Absent]

\* the machines of Spec that start from any home of CmdHomes (every machine
\* of CmdEnvs starts from the home without rc files): nothing installed;
\* everything installed; everything but the tool; that with a node too old;
\* a node and an npm of the system and no nvm; nvm with a version directory
\* and no node on the PATH; the tool and nothing else
SampleEnvs ==
    {FreshEnv,
     ReadyEnv,
     [ReadyEnv EXCEPT !.claude = FALSE, !.npm_global_dir = FALSE],
     [ReadyEnv EXCEPT !.claude = FALSE, !.npm_global_dir = FALSE,
                      !.node = Version(MinNodeMajor - 1)],
     [FreshEnv EXCEPT !.node = Version(MinNodeMajor), !.npm = TRUE],
     [FreshEnv EXCEPT !.nvm_sh = TRUE, !.nvm_dir = TRUE, !.latest = NodeDir],
     [FreshEnv EXCEPT !.claude = TRUE]}

Init ==
    /\ files \in CmdHomes
    /\ env \in CmdEnvs
    /\ files = NoRcFile \/ env \in SampleEnvs
    /\ installed \in CmdInstalled
    /\ op = NoOp(files, env)
    /\ home0 = files
    /\ runs = 0

Next ==
    \/ \E config \in CmdConfigs : CmdInstall(config, 1)
    \/ \E environ \in Environs : CmdCheck(environ, 1)
    \/ \E config \in UninstallConfigs :
          CmdUninstall(config, 1)

Spec == Init /\ [][Next]_vars

-----------------------------------------------------------------------------
(* SpecRender: one call of generate_shell_config, for any dialect and any  *)
(* options of `install`                                                    *)

InitRender ==
    /\ files = [f \in RcFiles |-> Absent]
    /\ \E latest \in {"", NodeDir} :
          env = [FreshEnv EXCEPT !.nvm_dir = latest # "", !.latest = latest]
    /\ installed = Shells
    /\ op = NoOp(files, env)
    /\ home0 = files
    /\ runs = 0

NextRender ==
    \E shell_name \in Shells, config \in InstallConfigs, now \in Timestamps :
        GenerateShellConfig(shell_name, config, now, 1)

SpecRender == InitRender /\ [][NextRender]_vars

-----------------------------------------------------------------------------
(* SpecProbe: one call of check_node_version, for any output of the probes *)

\* the versions and near-versions `node --version` may print
VersionTexts ==
    { <<>>,
      <<"v", "18", ".", "0", ".", "0">>,
      <<"v", "17", ".", "9", ".", "9">>,
      <<"v", "18", ".", "0">>,
      <<"18", ".", "0", ".", "0">>,
      <<"v", ".", "0", ".", "0">>,
      <<"v", "9", ".", "18", ".", "18">>,
      <<"v", "17", ".", "0", ".", "0", SP, "v", "18", ".", "0", ".", "0">> }

\* what may stand around them
JunkChars == {"v", "x", LF}

\* the outputs of nvm's node, and the outputs of the system node
NodeTexts ==
    UNION {{pre \o mid \o post :
               mid \in VersionTexts, post \in Strs(JunkChars, MaxJunk - Len(pre))} :
           pre \in Strs(JunkChars, MaxJunk)}

SystemTexts ==
    {<<>>, <<"v", "18", ".", "0", ".", "0", LF>>, <<"v", "17", ".", "9", ".", "9", LF>>}

InitProbe ==
    /\ files = [f \in RcFiles |-> Absent]
    /\ env \in {FreshEnv, [FreshEnv EXCEPT !.nvm_dir = TRUE, !.nvm_sh = TRUE]}
    /\ installed = Shells
    /\ op = NoOp(files, env)
    /\ home0 = files
    /\ runs = 0

NextProbe ==
    \E nvm_stdout \in NodeTexts, system_stdout \in SystemTexts :
        CheckNodeVersion(nvm_stdout, system_stdout, 1)

SpecProbe == InitProbe /\ [][NextProbe]_vars

-----------------------------------------------------------------------------
(* SpecCheck: one run of `check`, for secrets of any length around the      *)
(* lengths the masking tests                                                *)

\* the lengths of a secret: not set, and on both sides of 10 and of 14
SecretLengths == {0, 8, 10, 11, 14, 15, 20}

CheckEnvirons ==
    {Environ(k, t, o) : k \in SecretLengths, t \in SecretLengths, o \in BOOLEAN}

InitCheck ==
    /\ files \in CmdHomes
    /\ env \in {FreshEnv, ReadyEnv}
    /\ installed = {"zsh"}
    /\ op = NoOp(files, env)
    /\ home0 = files
    /\ runs = 0

NextCheck == \E environ \in CheckEnvirons : CmdCheck(environ, 1)

SpecCheck == InitCheck /\ [][NextCheck]_vars

-----------------------------------------------------------------------------
(* SpecTool: one call of install_claude_code, or one run of `install`,     *)
(* on any machine                                                          *)

\* `install` with or without --force, with or without a proxy
ToolConfigs ==
    {[DefaultConfig EXCEPT !.force = f, !.http_proxy = p] :
        f \in BOOLEAN, p \in {"", "proxy"}}

InitTool ==
    /\ files = NoRcFile
    /\ env \in CmdEnvs
    /\ installed = {"zsh"}
    /\ op = NoOp(files, env)
    /\ home0 = files
    /\ runs = 0

NextTool ==
    \/ \E config \in ToolConfigs : InstallClaudeCode(config, 1)
    \/ \E config \in ToolConfigs : CmdInstall(config, 1)

SpecTool == InitTool /\ [][NextTool]_vars

-----------------------------------------------------------------------------
(* SpecRemove: one call of uninstall_node_nvm on any machine *)

InitRemove ==
    /\ files = [f \in RcFiles |-> File(UserText)]
    /\ env \in CmdEnvs
    /\ installed = {"zsh"}
    /\ op = NoOp(files, env)
    /\ home0 = files
    /\ runs = 0

NextRemove == UninstallNodeNvm(1)

SpecRemove == InitRemove /\ [][NextRemove]_vars

-----------------------------------------------------------------------------
(* SpecRuns: the program run several times on one machine: runs of        *)
(* `install`, then one run of `uninstall`, on a home whose rc files hold   *)
(* no marker                                                               *)

\* the number of runs
MaxRuns == 3

\* user text that holds halves of both markers but no marker
HalvesText == <<"S2", "E2", LF, "u", LF, "S1", "E1">>

\* the home directories of SpecRuns: no rc file, or every rc file with that
\* text
RunHomes == {[f \in RcFiles |-> x] : x \in {Absent, File(HalvesText)}}

\* the dialects found installed, the same in every run: the two that share
\* .cshrc and .login, all
RunInstalled == {{"csh", "tcsh"}, Shells}

\* the arguments of `install`: a token or none
RunConfigs == {[DefaultConfig EXCEPT !.token = t] : t \in {"", "tok"}}

\* the machines of SpecRuns that have the version manager: everything
\* installed; everything but the tool
RunEnvs ==
    {ReadyEnv,
     [ReadyEnv EXCEPT !.claude = FALSE, !.npm_global_dir = FALSE]}

\* the machine of SpecRuns on which install_nvm runs the bootstrap: a node
\* and an npm of the system, no version manager and no tool
BootEnv == [FreshEnv EXCEPT !.node = Version(MinNodeMajor), !.npm = TRUE]

\* its home directory: .cshrc, the file csh and tcsh share and the bootstrap
\* may take, with that text, and no other rc file
CshrcHome ==
    [f \in RcFiles |-> IF f = ".cshrc" THEN File(HalvesText) ELSE Absent]

InitRuns ==
    /\ \/ /\ files \in RunHomes
          /\ env \in RunEnvs
          /\ installed \in RunInstalled
       \/ /\ files = CshrcHome
          /\ env = BootEnv
          /\ installed = {"csh", "tcsh"}
    /\ op = NoOp(files, env)
    /\ home0 = files
    /\ runs = 0

NextRuns ==
    \/ /\ op.name # "cmd_uninstall"
       /\ \E config \in RunConfigs : CmdInstall(config, MaxRuns)
    \/ /\ op.name # "cmd_uninstall"
       /\ \E config \in UninstallConfigs :
             CmdUninstall(config, MaxRuns)

SpecRuns == InitRuns /\ [][NextRuns]_vars

-----------------------------------------------------------------------------
(* Claims about the editor, under SpecEdit *)

IsPrefix(p, t) == Len(p) <= Len(t) /\ SubSeq(t, 1, Len(p)) = p
IsSuffix(x, t) == Len(x) <= Len(t) /\ SubSeq(t, Len(t) - Len(x) + 1, Len(t)) = x

\* the block the last update_shell_config rendered
LastBlock == generate_shell_config(op.shell, op.config, op.now, op.penv.latest)

\* the timestamp comment of a block rendered at `now`
GeneratedLine(now) == <<"# Generated on", SP, now>>

\* t holds no marker
NoMarker(t) ==
    Count(t, CONFIG_START_MARKER) = 0 /\ Count(t, CONFIG_END_MARKER) = 0

\* t holds one start marker and, after it, one end marker
OnePair(t) ==
    /\ Count(t, CONFIG_START_MARKER) = 1
    /\ Count(t, CONFIG_END_MARKER) = 1
    /\ Find(t, CONFIG_START_MARKER, 1) < Find(t, CONFIG_END_MARKER, 1)

\* C1 (as claimed): right after update_shell_config, running it again with
\* the same configuration and timestamp leaves every rc file as it is.
C1_UpsertIdempotent ==
    op.name = "update_shell_config" =>
        update_shell_config(files, op.shell, op.config, op.now, env.latest).files
            = files

\* the markers the edited file holds, and what the last operation left of them
MarkerCounts(starts, ends) ==
    /\ starts <= 1
    /\ ends <= 1
    /\ op.name = "update_shell_config" =>
          /\ starts = 1
          /\ ends = 1
          /\ \A now \in Timestamps :
                Count(files[EditFile].text, GeneratedLine(now))
                    = IF now = op.now THEN 1 ELSE 0
    /\ op.name = "remove_shell_config" => starts = 0 /\ ends = 0

\* C2 (as claimed): from a file that holds no marker or exactly one marker
\* pair, after any updates and removals the file holds at most one start and
\* one end marker, one of each right after an update (with the timestamp of
\* that update only), none right after a removal.
C2_AtMostOneBlock_AnyPair ==
    (NoMarker(home0[EditFile].text) \/ OnePair(home0[EditFile].text)) =>
        MarkerCounts(Count(files[EditFile].text, CONFIG_START_MARKER),
                     Count(files[EditFile].text, CONFIG_END_MARKER))

\* the text around the block of t does not make up a marker of its own once
\* the block is taken out (so it is when each marker is a line of its own)
CleanAround(t) == NoMarker(re_sub_block(t))

\* C2 (amended): the same, for a file that holds no marker, or exactly one
\* marker pair whose surrounding text does not join into a marker when the
\* block is deleted.
C2_AtMostOneBlock ==
    (\/ NoMarker(home0[EditFile].text)
     \/ OnePair(home0[EditFile].text) /\ CleanAround(home0[EditFile].text)) =>
        MarkerCounts(Count(files[EditFile].text, CONFIG_START_MARKER),
                     Count(files[EditFile].text, CONFIG_END_MARKER))

\* C2's case: the file held a pair from the start, and an update at t2 has
\* just replaced the block an update at t1 had written
C2_Witness ==
    /\ OnePair(home0[EditFile].text)
    /\ CleanAround(home0[EditFile].text)
    /\ op.name = "update_shell_config"
    /\ op.now = "t2"
    /\ Contains(op.prev[EditFile].text, GeneratedLine("t1"))
    /\ Count(files[EditFile].text, CONFIG_START_MARKER) = 1

\* the last operation was a removal that found the block of an update in the
\* file, which was empty before the first operation
UpsertThenRemoveOnEmpty ==
    /\ home0[EditFile] = File(<<>>)
    /\ op.name = "remove_shell_config"
    /\ EditFile \in op.written

\* C3 (as claimed): update then remove on an originally empty file leaves no
\* character in the file.
C3_RoundTripEmpty ==
    UpsertThenRemoveOnEmpty => files[EditFile].text = <<>>

\* C3 (amended): update then remove on an originally empty file leaves the
\* file holding one newline and nothing else.
C3_RoundTripNewline ==
    UpsertThenRemoveOnEmpty => files[EditFile] = File(<<LF>>)

\* C3's case: the removal has run on the block an update wrote into the
\* empty file
C3_Witness ==
    /\ UpsertThenRemoveOnEmpty
    /\ OnePair(op.prev[EditFile].text)

\* C4 (as claimed): an update of a file without a start marker writes the
\* previous content, a separator and the rendered block; the rendered block
\* alone when the file was absent or empty.
C4_AppendOnly ==
    (/\ op.name = "update_shell_config"
     /\ ~Contains(op.prev[EditFile].text, CONFIG_START_MARKER)) =>
        IF op.prev[EditFile].text = <<>>
        THEN files[EditFile].text = LastBlock
        ELSE /\ IsPrefix(op.prev[EditFile].text, files[EditFile].text)
             /\ IsSuffix(LastBlock, files[EditFile].text)
             /\ Len(files[EditFile].text)
                    > Len(op.prev[EditFile].text) + Len(LastBlock)

\* C10 (as claimed): remove_shell_config rewrites, and reports, only the
\* candidate files that exist and hold both markers; every other candidate is
\* left as it was; a rewritten file holds no marker and ends with one newline.
C10_RemoveOnlyPairs ==
    op.name = "remove_shell_config" =>
        /\ op.removed <=> op.written # {}
        /\ \A i \in 1..Len(rc_files(op.shell)) :
              LET f == rc_files(op.shell)[i]
              IN  IF f \in op.written
                  THEN /\ op.prev[f].exists
                       /\ Contains(op.prev[f].text, CONFIG_START_MARKER)
                       /\ Contains(op.prev[f].text, CONFIG_END_MARKER)
                       /\ NoMarker(files[f].text)
                       /\ IsSuffix(<<LF>>, files[f].text)
                       /\ ~IsSuffix(<<LF, LF>>, files[f].text)
                  ELSE files[f] = op.prev[f]

-----------------------------------------------------------------------------
(* Claims about the choice of the file, under SpecHome *)

\* the first candidate that exists, from the i-th on; the first when none does
RECURSIVE first_existing(_, _, _)
first_existing(fs, cands, i) ==
    IF i > Len(cands) THEN cands[1]
    ELSE IF fs[cands[i]].exists THEN cands[i]
    ELSE first_existing(fs, cands, i + 1)

\* C5 (as claimed): update_shell_config of bash, zsh, csh or tcsh writes one
\* rc file, the first candidate of the dialect that existed, or the first
\* candidate when none existed, and leaves every other file as it was.
C5_EditTarget ==
    (op.name = "update_shell_config" /\ op.shell # "fish") =>
        /\ op.written = {first_existing(op.prev, rc_files(op.shell), 1)}
        /\ \A f \in RcFiles \ op.written : files[f] = op.prev[f]

-----------------------------------------------------------------------------
(* Claims about the commands, under Spec *)

InLog(entry) == \E i \in 1..Len(op.log) : op.log[i] = entry

ProvisionSteps == <<"install_nvm", "install_node", "install_claude_code">>

\* a log entry of cmd_install starting one of its four steps
IsStep(entry) ==
    \/ entry[1] = "update_shell_config"
    \/ /\ \E i \in 1..Len(ProvisionSteps) : entry[1] = ProvisionSteps[i]
       /\ entry[2] = ""

\* a log entry of cmd_install with what a provisioning step returned
IsReturn(entry) ==
    /\ \E i \in 1..Len(ProvisionSteps) : entry[1] = ProvisionSteps[i]
    /\ entry[2] \in {"True", "False"}

\* a log entry of anything the provisioning does
IsProvision(entry) ==
    \/ \E i \in 1..Len(ProvisionSteps) : entry[1] = ProvisionSteps[i]
    \/ entry[1] \in {"nvm bootstrap", "nvm install", "npm install (prefix)",
                     "npm install (no prefix)"}

IsRemoval(entry) == entry[1] = "remove_shell_config"

\* one call `name` for every installed dialect, in the order of the table
RECURSIVE ForInstalled(_, _, _)
ForInstalled(name, inst, i) ==
    IF i > Len(ShellOrder) THEN <<>>
    ELSE (IF ShellOrder[i] \in inst THEN << <<name, ShellOrder[i]>> >> ELSE <<>>)
         \o ForInstalled(name, inst, i + 1)

\* the four steps of a whole install
Plan(inst) ==
    [i \in 1..Len(ProvisionSteps) |-> <<ProvisionSteps[i], "">>]
    \o ForInstalled("update_shell_config", inst, 1)

\* the last command found the tool and was not forced
TookShortcut == check_claude_installed(op.penv) /\ ~op.config.force

\* every installed dialect has the block of the last run in its first rc file
AllUpserted ==
    \A s \in installed :
        /\ rc_files(s)[1] \in op.written
        /\ Contains(files[rc_files(s)[1]].text, GeneratedLine(op.now[s]))

\* the rc files are as they were, but for the lines the bootstrap of nvm
\* appended to the profile it took, whichever rc file that is, when
\* install_nvm ran it, whether it then found nvm.sh or not
BootstrapOnly ==
    IF InLog(<<"nvm bootstrap", "">>)
    THEN \E profile \in {""} \cup RcFiles :
            files = nvm_bootstrap(op.prev, profile)
    ELSE files = op.prev

\* the steps of cmd_install past the shortcut, in their order, with `kept`
\* standing for what a run that fails leaves of the rc files
InstallOrder(kept) ==
    (op.name = "cmd_install" /\ ~TookShortcut) =>
        LET steps == SelectSeq(op.log, IsStep)
            rets == SelectSeq(op.log, IsReturn)
        IN  /\ IsPrefix(steps, Plan(installed))
            /\ Len(rets) <= Len(ProvisionSteps)
            /\ \A i \in 1..Len(rets) : rets[i][1] = ProvisionSteps[i]
            /\ IF \E i \in 1..Len(rets) : rets[i][2] = "False"
               THEN /\ op.rc = 1
                    /\ op.log[Len(op.log)] = rets[Len(rets)]
                    /\ rets[Len(rets)][2] = "False"
                    /\ Len(steps) = Len(rets)
                    /\ op.written = {}
                    /\ kept
               ELSE /\ Len(rets) = Len(ProvisionSteps)
                    /\ steps = Plan(installed)
                    /\ AllUpserted
                    /\ op.rc = 0

\* C6 (as claimed): cmd_install past the shortcut starts its steps in the
\* order install_nvm, install_node, install_claude_code, update_shell_config;
\* when a provisioning step returns False the command returns 1 at once,
\* having started no later step, and no rc file is written: every rc file is
\* as it was; when the three return True, every installed dialect is updated
\* and the command returns 0.
C6_InstallOrder_NoWrite == InstallOrder(files = op.prev)

\* C6 (amended): the same, except that a run that fails leaves the rc files
\* as the provisioning steps left them: update_shell_config has written
\* none, and the bootstrap of nvm, when install_nvm ran it and whatever
\* install_nvm then returned, may have appended its lines to one rc file
\* that existed, the profile it took.
C6_InstallOrder == InstallOrder(BootstrapOnly)

\* C6's case: with every dialect installed and a block in every rc file, the
\* version manager was installed, its bootstrap appending the lines that load
\* nvm.sh to .cshrc, the file $PROFILE named, the runtime was installed and
\* the tool was not
C6_Witness ==
    /\ op.name = "cmd_install"
    /\ ~TookShortcut
    /\ installed = Shells
    /\ \A f \in RcFiles : op.prev[f] = File(BlockText)
    /\ InLog(<<"nvm bootstrap", "">>)
    /\ files = [op.prev EXCEPT ![".cshrc"] = File(BlockText \o NvmSourceLines)]
    /\ InLog(<<"nvm install", "">>)
    /\ InLog(<<"install_claude_code", "False">>)
    /\ op.written = {}
    /\ op.rc = 1

\* C7: cmd_install that finds the tool, without --force, runs no provisioning
\* step, changes nothing outside the rc files and returns 0; with a token it
\* updates every installed dialect, without one it writes no rc file.
C7_Shortcut ==
    (op.name = "cmd_install" /\ TookShortcut) =>
        /\ SelectSeq(op.log, IsProvision) = <<>>
        /\ env = op.penv
        /\ op.rc = 0
        /\ IF op.config.token # ""
           THEN /\ SelectSeq(op.log, IsStep)
                      = ForInstalled("update_shell_config", installed, 1)
                /\ AllUpserted
           ELSE /\ SelectSeq(op.log, IsStep) = <<>>
                /\ op.written = {}
                /\ files = op.prev

\* C7's case: the tool was found, no token was given but a proxy, a region
\* and a profile were, and every dialect is installed
C7_Witness ==
    /\ op.name = "cmd_install"
    /\ TookShortcut
    /\ op.config.token = ""
    /\ op.config.http_proxy # ""
    /\ op.config.aws_region # ""
    /\ op.config.aws_profile # ""
    /\ installed = Shells
    /\ op.written = {}

\* C8: cmd_check returns 0 when the node probe is ok, the npm probe is ok and
\* the tool is found, and 1 otherwise, whatever nvm.sh, the environment
\* variables and the rc files are; it changes nothing.
C8_CheckStatus ==
    op.name = "cmd_check" =>
        /\ op.rc = IF /\ check_node_version(op.penv.node).ok
                      /\ op.penv.npm
                      /\ op.penv.claude
                   THEN 0 ELSE 1
        /\ files = op.prev
        /\ env = op.penv

\* C8's case: the check succeeds with no nvm.sh, no API key set and an
\* installed dialect without a block
C8_Witness ==
    /\ op.name = "cmd_check"
    /\ op.rc = 0
    /\ InLog(<<"nvm.sh", "Not installed">>)
    /\ InLog(<<"ANTHROPIC_API_KEY", <<"Not set">> >>)
    /\ InLog(<<"zsh", "Not configured">>)

\* the candidate rc files of the installed dialects
InstalledCandidates ==
    {f \in RcFiles : \E s \in installed : InSeq(f, rc_files(s))}

HoldsMarker(file) ==
    /\ file.exists
    /\ \/ Contains(file.text, CONFIG_START_MARKER)
       \/ Contains(file.text, CONFIG_END_MARKER)

\* C9: cmd_uninstall makes both uninstall attempts, calls uninstall_node_nvm
\* exactly when --keep-node is not given (so with it ~/.nvm stays as it was),
\* then calls remove_shell_config for every installed dialect, and returns 0;
\* every candidate file of an installed dialect that held the start marker is
\* rewritten, without a marker left when it held one block, and no other rc
\* file is touched.
C9_UninstallCompletes ==
    op.name = "cmd_uninstall" =>
        /\ op.rc = 0
        /\ IsPrefix(<< <<"uninstall_claude_code", "">>,
                       <<"npm uninstall (prefix)", "">>,
                       <<"npm uninstall (no prefix)", "">> >>, op.log)
        /\ InLog(<<"uninstall_node_nvm", "">>) <=> ~op.config.keep_node
        /\ op.config.keep_node =>
              /\ ~InLog(<<"rmtree nvm_dir", "">>)
              /\ env.nvm_dir = op.penv.nvm_dir
              /\ env.nvm_sh = op.penv.nvm_sh
        /\ SelectSeq(op.log, IsRemoval)
              = ForInstalled("remove_shell_config", installed, 1)
        /\ IsSuffix(ForInstalled("remove_shell_config", installed, 1), op.log)
        /\ \A f \in RcFiles :
              IF /\ f \in InstalledCandidates
                 /\ op.prev[f].exists
                 /\ Contains(op.prev[f].text, CONFIG_START_MARKER)
              THEN /\ f \in op.written
                   /\ files[f].exists
                   /\ (OnePair(op.prev[f].text) /\ CleanAround(op.prev[f].text))
                         => NoMarker(files[f].text)
              ELSE /\ f \notin op.written
                   /\ files[f] = op.prev[f]

\* C9's case: the tool is still found after the run, the removal of ~/.nvm
\* failed, and the block is gone from every rc file of the five dialects
C9_Witness ==
    /\ op.name = "cmd_uninstall"
    /\ ~op.config.keep_node
    /\ op.penv.claude /\ env.claude
    /\ InLog(<<"rmtree nvm_dir", "">>)
    /\ env.nvm_dir
    /\ installed = Shells
    /\ \A f \in RcFiles : OnePair(op.prev[f].text) /\ NoMarker(files[f].text)
    /\ op.rc = 0

-----------------------------------------------------------------------------
(* Claims about the rendered block, under SpecRender *)

\* the block sets `key` to `value` in a line of the dialect
Exports(block, shell_name, key, value) ==
    Contains(block, <<LF>> \o env_line(shell_name, key, value) \o <<LF>>)

ProxyVars == {"HTTP_PROXY", "HTTPS_PROXY", "http_proxy", "https_proxy"}

\* C11: the block generate_shell_config renders sets, for a bedrock token,
\* AWS_BEARER_TOKEN_BEDROCK and CLAUDE_CODE_USE_BEDROCK and does not name
\* ANTHROPIC_API_KEY; for an anthropic token, ANTHROPIC_API_KEY and neither of
\* the other two; and with --no-proxy it names none of the four proxy
\* variables even when a proxy was given.
C11_RenderedVariables ==
    op.name = "generate_shell_config" =>
        /\ (op.config.token # "" /\ op.config.token_type = "bedrock") =>
              /\ Exports(op.result, op.shell, "AWS_BEARER_TOKEN_BEDROCK",
                         op.config.token)
              /\ Exports(op.result, op.shell, "CLAUDE_CODE_USE_BEDROCK", "1")
              /\ ~InSeq("ANTHROPIC_API_KEY", op.result)
        /\ (op.config.token # "" /\ op.config.token_type = "anthropic") =>
              /\ Exports(op.result, op.shell, "ANTHROPIC_API_KEY", op.config.token)
              /\ ~InSeq("AWS_BEARER_TOKEN_BEDROCK", op.result)
              /\ ~InSeq("CLAUDE_CODE_USE_BEDROCK", op.result)
        /\ op.config.skip_proxy =>
              \A key \in ProxyVars : ~InSeq(key, op.result)

\* C11's case: the block of fish for a bedrock token, with a proxy given and
\* --no-proxy
C11_Witness ==
    /\ op.name = "generate_shell_config"
    /\ op.shell = "fish"
    /\ op.config.token # ""
    /\ op.config.token_type = "bedrock"
    /\ op.config.http_proxy # ""
    /\ op.config.skip_proxy
    /\ Exports(op.result, op.shell, "AWS_BEARER_TOKEN_BEDROCK", op.config.token)

-----------------------------------------------------------------------------
(* Claims about check_node_version, under SpecProbe *)

\* the version string a call obtained: the first of the two outputs that is
\* not blank
Obtained(outputs) ==
    IF strip(outputs[1]) # <<>> THEN strip(outputs[1]) ELSE strip(outputs[2])

\* the places of t where a vMAJOR.MINOR.PATCH stands
VersionsIn(t) ==
    {i \in 1..(Len(t) - 5) :
        /\ SubSeq(t, i, i) = <<"v">>
        /\ SubSeq(t, i + 2, i + 2) = <<".">>
        /\ SubSeq(t, i + 4, i + 4) = <<".">>
        /\ \A k \in {1, 3, 5} : IsDigits(t[i + k])}

\* MAJOR of the leftmost version of t
Major(t) ==
    LET i == CHOOSE i \in VersionsIn(t) : \A j \in VersionsIn(t) : i <= j
    IN  IntOf[t[i + 1]]

\* which of the four outcomes the outputs call for
Outcome(outputs) ==
    LET t == Obtained(outputs)
    IN  IF t = <<>> THEN "not found"
        ELSE IF VersionsIn(t) = {} THEN "unparseable"
        ELSE IF Major(t) >= MinNodeMajor THEN "ok" ELSE "too old"

\* C12: check_node_version is ok exactly when a version string was obtained,
\* a vMAJOR.MINOR.PATCH stands in it and MAJOR >= 18, so v18.0.0 passes and
\* v17.9.9 does not; and its message differs from the message of every call
\* with another of the outcomes not found, too old, unparseable.
C12_NodeVersionOutcomes ==
    op.name = "check_node_version" =>
        /\ op.ok <=> Outcome(op.arg) = "ok"
        /\ Obtained(op.arg) = <<"v", "18", ".", "0", ".", "0">> => op.ok
        /\ Obtained(op.arg) = <<"v", "17", ".", "9", ".", "9">> => ~op.ok
        /\ \A nvm_stdout \in NodeTexts, system_stdout \in SystemTexts :
              Outcome(<<nvm_stdout, system_stdout>>) # Outcome(op.arg) =>
                  check_node_version_run(nvm_stdout, system_stdout).msg
                      # op.result

\* C12's case: nvm's node printed nothing, the system node printed v17.9.9,
\* and the call answered that this is too old
C12_Witness ==
    /\ op.name = "check_node_version"
    /\ strip(op.arg[1]) = <<>>
    /\ Obtained(op.arg) = <<"v", "17", ".", "9", ".", "9">>
    /\ ~op.ok
    /\ InSeq("Too old - need >=18", op.result)

-----------------------------------------------------------------------------
(* Claims about the masking, under SpecCheck *)

\* what the last cmd_check showed of `var`: the second part of its line
Shown(var) ==
    LET i == CHOOSE i \in 1..Len(op.log) : op.log[i][1] = var
    IN  op.log[i][2]

FirstTen(value) == SubSeq(value, 1, 10)
LastFour(value) == SubSeq(value, Len(value) - 3, Len(value))

Secrets == {"ANTHROPIC_API_KEY", "AWS_BEARER_TOKEN_BEDROCK"}

\* the full value of a secret that is set stands in no line of the log
NeverInFull ==
    \A var \in Secrets :
        op.arg[var] # <<>> =>
            \A i \in 1..Len(op.log) :
                op.log[i][1] \in EnvVars => ~Contains(op.log[i][2], op.arg[var])

\* C13 (as claimed): cmd_check shows the API key and the bearer token, when
\* 20 characters long, as the first 10 characters, "..." and the last 4, and
\* when 8 characters long as "***"; it never shows the full value.
C13_MaskingSame ==
    op.name = "cmd_check" =>
        /\ \A var \in Secrets :
              /\ Len(op.arg[var]) = 20 =>
                    Shown(var) = FirstTen(op.arg[var]) \o <<"...">>
                                 \o LastFour(op.arg[var])
              /\ Len(op.arg[var]) = 8 => Shown(var) = <<"***">>
        /\ NeverInFull

\* C13 (amended): cmd_check shows the API key, when 20 characters long, as the
\* first 10 characters, "..." and the last 4, and the bearer token, when 20
\* characters long, as the first 10 characters and "..."; each as "***" when
\* 8 characters long; it never shows the full value of either.
C13_Masking ==
    op.name = "cmd_check" =>
        /\ Len(op.arg["ANTHROPIC_API_KEY"]) = 20 =>
              Shown("ANTHROPIC_API_KEY")
                  = FirstTen(op.arg["ANTHROPIC_API_KEY"]) \o <<"...">>
                    \o LastFour(op.arg["ANTHROPIC_API_KEY"])
        /\ Len(op.arg["AWS_BEARER_TOKEN_BEDROCK"]) = 20 =>
              Shown("AWS_BEARER_TOKEN_BEDROCK")
                  = FirstTen(op.arg["AWS_BEARER_TOKEN_BEDROCK"]) \o <<"...">>
        /\ \A var \in Secrets :
              Len(op.arg[var]) = 8 => Shown(var) = <<"***">>
        /\ NeverInFull

\* C13's case: a check with an API key of 20 characters and a bearer token
\* of 8
C13_Witness ==
    /\ op.name = "cmd_check"
    /\ Len(op.arg["ANTHROPIC_API_KEY"]) = 20
    /\ Len(op.arg["AWS_BEARER_TOKEN_BEDROCK"]) = 8
    /\ Len(Shown("ANTHROPIC_API_KEY")) = 15
    /\ Shown("AWS_BEARER_TOKEN_BEDROCK") = <<"***">>

-----------------------------------------------------------------------------
(* Claims about install_claude_code, under SpecTool *)

PrimaryAttempt == "npm install (prefix)"
FallbackAttempt == "npm install (no prefix)"

IsAttempt(entry) == entry[1] \in {PrimaryAttempt, FallbackAttempt}

\* C14: install_claude_code makes no attempt and succeeds when the tool is
\* found and --force is not given; otherwise it makes the attempt with the
\* prefix, then the attempt without it exactly when the first did not
\* succeed, and no third one; it fails exactly when both attempts failed, and
\* cmd_install then returns 1.
C14_ToolInstall ==
    LET attempts == SelectSeq(op.log, IsAttempt)
    IN  /\ op.name = "install_claude_code" =>
              IF check_claude_installed(op.penv) /\ ~op.config.force
              THEN attempts = <<>> /\ op.ok
              ELSE /\ Len(attempts) \in {1, 2}
                   /\ attempts[1][1] = PrimaryAttempt
                   /\ Len(attempts) = 2 <=> attempts[1][2] # "success"
                   /\ Len(attempts) = 2 => attempts[2][1] = FallbackAttempt
                   /\ ~op.ok <=> \A i \in 1..Len(attempts) : attempts[i][2] # "success"
                   /\ ~op.ok => Len(attempts) = 2
        /\ op.name = "cmd_install" =>
              /\ Len(attempts) <= 2
              /\ (/\ InLog(<<PrimaryAttempt, "None">>)
                  /\ InLog(<<FallbackAttempt, "None">>)) =>
                     /\ op.log[Len(op.log)] = <<"install_claude_code", "False">>
                     /\ op.rc = 1

\* C14's case: in a forced install on a machine that has the tool, both
\* attempts failed and the command returned 1
C14_Witness ==
    /\ op.name = "cmd_install"
    /\ op.penv.claude
    /\ op.config.force
    /\ SelectSeq(op.log, IsAttempt)
          = << <<PrimaryAttempt, "None">>, <<FallbackAttempt, "None">> >>
    /\ op.rc = 1

-----------------------------------------------------------------------------
(* Claims about uninstall_node_nvm, under SpecRemove *)

\* C15 (as claimed): uninstall_node_nvm attempts the removal of ~/.nvm and of
\* ~/.npm-global, each if it exists; it returns False exactly when the
\* removal of ~/.nvm failed; and ~/.npm-global is gone afterwards unless its
\* own removal was attempted and failed.
C15_DirectoriesIndependent ==
    op.name = "uninstall_node_nvm" =>
        /\ op.penv.nvm_dir => InLog(<<"rmtree nvm_dir", "">>)
        /\ op.penv.npm_global_dir => InLog(<<"rmtree npm_global_dir", "">>)
        /\ ~op.ok <=> (InLog(<<"rmtree nvm_dir", "">>) /\ env.nvm_dir)
        /\ env.npm_global_dir => InLog(<<"rmtree npm_global_dir", "">>)

-----------------------------------------------------------------------------
(* More claims about the editor, under SpecEdit *)

\* the last update found, at the end of the file, the very block it renders:
\* the operation before it was an update with the same configuration and
\* timestamp
SecondRun ==
    /\ op.name = "update_shell_config"
    /\ IsSuffix(LastBlock, op.prev[EditFile].text)

\* C16: once update_shell_config has run twice in a row with one
\* configuration and timestamp, on a file that held at most one marker pair
\* at first, a third run leaves the file as the second left it.
C16_FixedPoint ==
    (/\ SecondRun
     /\ NoMarker(home0[EditFile].text) \/ OnePair(home0[EditFile].text)) =>
        update_shell_config(files, op.shell, op.config, op.now, env.latest).files
            = files

\* C16's case: the second run has just changed the file the first run wrote
C16_Witness ==
    /\ SecondRun
    /\ NoMarker(home0[EditFile].text)
    /\ files[EditFile] # op.prev[EditFile]

IsSolid(c) == c \notin Whitespace

\* the characters of t that are no whitespace
Solid(t) == SelectSeq(t, IsSolid)

\* t without its block: without the text from the first start marker to the
\* first end marker after it
Outside(t) ==
    LET i == Find(t, CONFIG_START_MARKER, 1)
        j == IF i = 0 THEN 0
             ELSE Find(t, CONFIG_END_MARKER, i + Len(CONFIG_START_MARKER))
    IN  IF j = 0 THEN t
        ELSE SubSeq(t, 1, i - 1)
             \o SubSeq(t, j + Len(CONFIG_END_MARKER), Len(t))

UserTextKept ==
    Solid(Outside(files[EditFile].text)) = Solid(Outside(home0[EditFile].text))

\* C17 (as claimed): from a file that holds no marker or exactly one marker
\* pair, after any updates and removals the characters outside the block
\* that are no whitespace are those that were outside the block at first, in
\* the same order.
C17_UserContent_AnyPair ==
    (NoMarker(home0[EditFile].text) \/ OnePair(home0[EditFile].text)) =>
        UserTextKept

\* C17 (amended): the same, for a file that holds no marker, or exactly one
\* marker pair whose surrounding text does not join into a marker when the
\* block is deleted.
C17_UserContent ==
    (\/ NoMarker(home0[EditFile].text)
     \/ OnePair(home0[EditFile].text) /\ CleanAround(home0[EditFile].text)) =>
        UserTextKept

\* C17's case: the file had user text on both sides of a block, an update
\* has replaced the block and a removal has just taken the new block out
C17_Witness ==
    /\ OnePair(home0[EditFile].text)
    /\ CleanAround(home0[EditFile].text)
    /\ Solid(SubSeq(home0[EditFile].text, 1,
                    Find(home0[EditFile].text, CONFIG_START_MARKER, 1) - 1)) # <<>>
    /\ Len(Solid(Outside(home0[EditFile].text))) = MaxLen
    /\ op.name = "remove_shell_config"
    /\ \E now \in Timestamps : Contains(op.prev[EditFile].text, GeneratedLine(now))
    /\ EditFile \in op.written
    /\ UserTextKept

-----------------------------------------------------------------------------
(* Claims about runs of install and uninstall, under SpecRuns *)

\* C18: from rc files that hold no marker, after runs of install and then a
\* run of uninstall, no candidate rc file of an installed dialect holds the
\* start or the end marker, the files that dialects share included, and
\* a further run of uninstall, with or without --keep-node, writes no rc
\* file (what a run of uninstall does to the rc files depends on no outcome
\* of its other steps: C9)
C18_UninstallCleans ==
    (/\ \A f \in RcFiles : ~HoldsMarker(home0[f])
     /\ op.name = "cmd_uninstall") =>
        /\ \A f \in InstalledCandidates : ~HoldsMarker(files[f])
        /\ \A config \in UninstallConfigs :
              LET r == cmd_uninstall(files, env, installed, config, AllOk)
              IN  r.files = files /\ r.written = {}

\* C18's case: csh and tcsh are installed, two runs of install have upserted
\* the block into .cshrc and .tcshrc, and uninstall has just cleaned both
C18_Witness ==
    /\ {"csh", "tcsh"} \subseteq installed
    /\ home0[".cshrc"].exists
    /\ runs = 3
    /\ op.name = "cmd_uninstall"
    /\ {".cshrc", ".tcshrc"} \subseteq op.written
    /\ \E config \in RunConfigs, now1 \in Clocks, now2 \in Clocks :
          LET once == update_installed(home0, 1, installed, config, now1,
                                       op.penv.latest).files
              twice == update_installed(once, 1, installed, config, now2,
                                        op.penv.latest).files
          IN  op.prev = twice /\ twice # once
    /\ \A f \in RcFiles : ~HoldsMarker(files[f])

====
